---- MODULE Spec2Model ----
(***************************************************************************)
(* A model of the ludus NES core: the PPU register file (PPUState), the    *)
(* PPU renderer (PPU) and the console driver (Console).  The PPU register  *)
(* state is the record m_ppu, the renderer the record ppu; the operators   *)
(* below are named after the Rust functions they are translated from.      *)
(***************************************************************************)
EXTENDS Integers, Naturals, Sequences, FiniteSets, TLC

VARIABLES
    m_ppu,      \* PPUState (MemoryBus.ppu): registers, palette, nametables, OAM
    ppu,        \* PPU: cycle, scanline, f, background and sprite scratch
    mapper,     \* the cartridge mapper: mirroring mode and pattern-table bytes
    cpu_nmi,    \* number of CPU::set_nmi calls made by PPU::tick so far
    video,      \* number of VideoDevice::blit_pixels calls so far
    v_buffer,   \* the last PixelBuffer::write of render_pixel, <<>> if none
    ret,        \* what the last operation returned (register byte, frame flag)
    panicked,   \* "none", or the panic that stopped the program
    ticks,      \* number of PPU::step calls so far
    hist,       \* observation log of the behaviour (per specification)
    con         \* Console::step: position in the instruction loop

vars == <<m_ppu, ppu, mapper, cpu_nmi, video, v_buffer, ret, panicked, ticks,
          hist, con>>

----------------------------------------------------------------------------
(* Fixed-width integer helpers (u8 / u16 arithmetic of the source).        *)

RECURSIVE BitAnd(_, _)
BitAnd(a, b) ==
    IF a = 0 \/ b = 0 THEN 0
    ELSE (a % 2) * (b % 2) + 2 * BitAnd(a \div 2, b \div 2)

RECURSIVE BitOr(_, _)
BitOr(a, b) ==
    IF a = 0 THEN b
    ELSE IF b = 0 THEN a
    ELSE (IF a % 2 = 1 \/ b % 2 = 1 THEN 1 ELSE 0) + 2 * BitOr(a \div 2, b \div 2)

RECURSIVE BitXor(_, _)
BitXor(a, b) ==
    IF a = 0 THEN b
    ELSE IF b = 0 THEN a
    ELSE ((a + b) % 2) + 2 * BitXor(a \div 2, b \div 2)

Pow2(n) == 2 ^ n

\* value << n in a w-bit unsigned integer
Shl(a, n, w) == (a * Pow2(n)) % Pow2(w)

\* value >> n
Shr(a, n) == a \div Pow2(n)

\* !mask for a u16
Not16(mask) == 65535 - mask

Bool2Bit(b) == IF b THEN 1 ELSE 0

\* The outcome of `self.v += inc` on a u16: the release build wraps, the
\* debug build panics with an arithmetic overflow.
Builds == {"release", "debug"}

AddU16(a, inc, build) ==
    IF a + inc <= 65535 THEN [value |-> a + inc, panic |-> "none"]
    ELSE IF build = "release" THEN [value |-> (a + inc) % 65536, panic |-> "none"]
    ELSE [value |-> a, panic |-> "overflow"]

----------------------------------------------------------------------------
(* The mapper capability consumed by the PPU: pattern-table reads and the  *)
(* nametable mirroring mode.                                               *)

MirrorModes == {"horizontal", "vertical", "single_lower", "single_upper"}

MirrorTable(mode, table) ==
    CASE mode = "horizontal" -> <<0, 0, 1, 1>>[table + 1]
      [] mode = "vertical" -> <<0, 1, 0, 1>>[table + 1]
      [] mode = "single_lower" -> 0
      [] OTHER -> 1

\* Folds an address of the 0x2000 range into a nametable address.
mirror_address(mode, a) ==
    LET address == (a - 8192) % 4096
        table == address \div 1024
        offset == address % 1024
    IN 8192 + MirrorTable(mode, table) * 1024 + offset

\* mapper.read(a) for a < 0x2000: the pattern-table byte at a.
mapper_read(mp, a) == mp.chr[(a % Len(mp.chr)) + 1]

\* mapper.write(a, value) for a < 0x2000: pattern tables are ROM.
mapper_write(mp, a, value) == mp

----------------------------------------------------------------------------
(* PPUState                                                                *)

\* A byte array of the source ([u8; N], zero-initialised) is kept as the
\* function of its non-zero bytes: Peek reads index a, Poke writes it.
NoBytes == [i \in {} |-> 0]

Peek(mem, a) == IF a \in DOMAIN mem THEN mem[a] ELSE 0

Poke(mem, a, val) ==
    IF val = 0 THEN [i \in DOMAIN mem \ {a} |-> mem[i]]
    ELSE [i \in DOMAIN mem \cup {a} |-> IF i = a THEN val ELSE mem[i]]

PPUStateDefault ==
    [ palettes |-> NoBytes,
      nametables |-> NoBytes,
      oam |-> NoBytes,
      v |-> 0, t |-> 0, w |-> 0, x |-> 0, register |-> 0,
      nmi_occurred |-> FALSE, nmi_output |-> FALSE, nmi_previous |-> FALSE,
      nmi_delay |-> 0,
      flg_nametable |-> 0, flg_increment |-> 0, flg_spritetable |-> 0,
      flg_backgroundtable |-> 0, flg_spritesize |-> 0, flg_masterslave |-> 0,
      flg_grayscale |-> 0, flg_showleftbg |-> 0, flg_showleftsprites |-> 0,
      flg_showbg |-> 0, flg_showsprites |-> 0, flg_redtint |-> 0,
      flg_greentint |-> 0, flg_bluetint |-> 0,
      flg_sprite0hit |-> 0, flg_spriteoverflow |-> 0,
      oam_address |-> 0, buffer_data |-> 0 ]

\* NameTables::read / NameTables::write
NameTables_read(nt, addr) == Peek(nt, addr % 2048)

NameTables_write(nt, addr, val) == Poke(nt, addr % 2048, val)

\* Mutant of nmi_change: the countdown is primed one tick short.
nmi_change_short(s) ==
    LET nmi == s.nmi_output /\ s.nmi_occurred
    IN [s EXCEPT !.nmi_delay = IF nmi /\ ~s.nmi_previous THEN 14 ELSE @,
                 !.nmi_previous = nmi]

nmi_change(s) ==
    LET nmi == s.nmi_output /\ s.nmi_occurred
    IN [s EXCEPT !.nmi_delay = IF nmi /\ ~s.nmi_previous THEN 15 ELSE @,
                 !.nmi_previous = nmi]

PaletteWrap(address) ==
    IF address >= 16 /\ address % 4 = 0 THEN address - 16 ELSE address

\* Mutant of read_palette: the mirrors of the backdrop entries are read raw.
read_palette_raw(s, address) == Peek(s.palettes, address)

read_palette(s, address) == Peek(s.palettes, PaletteWrap(address))

write_palette(s, address, value) ==
    [s EXCEPT !.palettes = Poke(@, PaletteWrap(address), value)]

\* Mutant of MemRegion: the palette arm starts at 0x3000.
MemRegion_low_palette(address) ==
    LET wrapped == address % 16384
    IN IF wrapped < 8192 THEN "mapper"
       ELSE IF wrapped < 12288 THEN "nametables"
       ELSE IF wrapped < 16384 THEN "palettes"
       ELSE "unmapped"

\* Which arm of the match in PPUState::read / PPUState::write an address takes.
MemRegion(address) ==
    LET wrapped == address % 16384
    IN IF wrapped < 8192 THEN "mapper"
       ELSE IF wrapped < 16128 THEN "nametables"
       ELSE IF wrapped < 16384 THEN "palettes"
       ELSE "unmapped"

\* PPUState::read: [value, panic]
read(s, mp, address) ==
    LET a == address % 16384
        region == MemRegion(address)
    IN CASE region = "mapper" -> [value |-> mapper_read(mp, a), panic |-> "none"]
         [] region = "nametables" ->
              [value |-> NameTables_read(s.nametables, mirror_address(mp.mode, a)),
               panic |-> "none"]
         [] region = "palettes" ->
              [value |-> read_palette(s, a % 32), panic |-> "none"]
         [] OTHER -> [value |-> 0, panic |-> "unmapped"]

\* PPUState::write: [s, mp, panic]
write(s, mp, address, value) ==
    LET a == address % 16384
        region == MemRegion(address)
    IN CASE region = "mapper" ->
              [s |-> s, mp |-> mapper_write(mp, a, value), panic |-> "none"]
         [] region = "nametables" ->
              [s |-> [s EXCEPT !.nametables =
                         NameTables_write(@, mirror_address(mp.mode, a), value)],
               mp |-> mp, panic |-> "none"]
         [] region = "palettes" ->
              [s |-> write_palette(s, a % 32, value), mp |-> mp, panic |-> "none"]
         [] OTHER -> [s |-> s, mp |-> mp, panic |-> "unmapped"]

\* Mutant of read_status: the write toggle is left as it was.
read_status_keeps_w(s) ==
    LET res == BitOr(BitOr(BitOr(s.register % 32, Shl(s.flg_spriteoverflow, 5, 8)),
                           Shl(s.flg_sprite0hit, 6, 8)),
                     IF s.nmi_occurred THEN 128 ELSE 0)
        s1 == nmi_change([s EXCEPT !.nmi_occurred = FALSE])
    IN [s |-> s1, value |-> res]

\* Mutant of read_status: the read also clears the two sprite flags.
read_status_clears_sprite_flags(s) ==
    LET res == BitOr(BitOr(BitOr(s.register % 32, Shl(s.flg_spriteoverflow, 5, 8)),
                           Shl(s.flg_sprite0hit, 6, 8)),
                     IF s.nmi_occurred THEN 128 ELSE 0)
        s1 == nmi_change([s EXCEPT !.nmi_occurred = FALSE])
    IN [s |-> [s1 EXCEPT !.w = 0, !.flg_sprite0hit = 0, !.flg_spriteoverflow = 0],
        value |-> res]

\* PPUState::read_status: [s, value]
read_status(s) ==
    LET res == BitOr(BitOr(BitOr(s.register % 32, Shl(s.flg_spriteoverflow, 5, 8)),
                           Shl(s.flg_sprite0hit, 6, 8)),
                     IF s.nmi_occurred THEN 128 ELSE 0)
        s1 == nmi_change([s EXCEPT !.nmi_occurred = FALSE])
    IN [s |-> [s1 EXCEPT !.w = 0], value |-> res]

read_oam_data(s) == Peek(s.oam, s.oam_address)

\* PPUState::read_data: [s, value, panic]
read_data(s, mp, build) ==
    LET v == s.v
        first == read(s, mp, v)
        inPalette == ~(v % 16384 < 16128)
        second == IF inPalette THEN read(s, mp, v - 4096) ELSE first
        value == IF inPalette THEN first.value ELSE s.buffer_data
        buffered == IF inPalette THEN second.value ELSE first.value
        next == AddU16(s.v, IF s.flg_increment = 0 THEN 1 ELSE 32, build)
        panic == IF first.panic # "none" THEN first.panic
                 ELSE IF second.panic # "none" THEN second.panic
                 ELSE next.panic
    IN IF first.panic # "none" THEN [s |-> s, value |-> 0, panic |-> panic]
       ELSE IF second.panic # "none"
         THEN [s |-> s, value |-> 0, panic |-> panic]
       ELSE [s |-> [s EXCEPT !.buffer_data = buffered, !.v = next.value],
             value |-> IF next.panic = "none" THEN value ELSE 0,
             panic |-> panic]

\* PPUState::read_register: [s, value, panic]
read_register(s, mp, address, build) ==
    CASE address = 8194 ->
           LET r == read_status(s) IN [s |-> r.s, value |-> r.value, panic |-> "none"]
      [] address = 8196 -> [s |-> s, value |-> read_oam_data(s), panic |-> "none"]
      [] address = 8199 -> read_data(s, mp, build)
      [] OTHER -> [s |-> s, value |-> 0, panic |-> "none"]

\* Mutant of write_control: the NMI edge is not recomputed.
write_control_no_edge(s, value) ==
    LET s1 == [s EXCEPT !.flg_nametable = BitAnd(value, 2),
                        !.flg_increment = Shr(value, 2) % 2,
                        !.flg_spritetable = Shr(value, 3) % 2,
                        !.flg_backgroundtable = Shr(value, 4) % 2,
                        !.flg_spritesize = Shr(value, 5) % 2,
                        !.flg_masterslave = Shr(value, 6) % 2,
                        !.nmi_output = (Shr(value, 7) % 2 = 1)]
    IN [s1 EXCEPT !.t = BitOr(BitAnd(@, 62463), Shl(value % 4, 10, 16))]

write_control(s, value) ==
    LET s1 == [s EXCEPT !.flg_nametable = BitAnd(value, 2),
                        !.flg_increment = Shr(value, 2) % 2,
                        !.flg_spritetable = Shr(value, 3) % 2,
                        !.flg_backgroundtable = Shr(value, 4) % 2,
                        !.flg_spritesize = Shr(value, 5) % 2,
                        !.flg_masterslave = Shr(value, 6) % 2,
                        !.nmi_output = (Shr(value, 7) % 2 = 1)]
        s2 == nmi_change(s1)
    IN [s2 EXCEPT !.t = BitOr(BitAnd(@, 62463), Shl(value % 4, 10, 16))]

write_mask(s, value) ==
    [s EXCEPT !.flg_grayscale = value % 2,
              !.flg_showleftbg = Shr(value, 1) % 2,
              !.flg_showleftsprites = Shr(value, 2) % 2,
              !.flg_showbg = Shr(value, 3) % 2,
              !.flg_showsprites = Shr(value, 4) % 2,
              !.flg_redtint = Shr(value, 5) % 2,
              !.flg_greentint = Shr(value, 6) % 2,
              !.flg_bluetint = Shr(value, 7) % 2]

write_oam_address(s, value) == [s EXCEPT !.oam_address = value]

\* Mutant of write_oam_data: the address saturates at 255.
write_oam_data_saturating(s, value) ==
    [s EXCEPT !.oam = Poke(@, s.oam_address, value),
              !.oam_address = IF s.oam_address = 255 THEN 255 ELSE s.oam_address + 1]

write_oam_data(s, value) ==
    [s EXCEPT !.oam = Poke(@, s.oam_address, value),
              !.oam_address = (s.oam_address + 1) % 256]

\* Mutant of write_scroll: the first write overwrites all of t.
write_scroll_clobbers(s, value) ==
    IF s.w = 0
    THEN [s EXCEPT !.t = Shr(value, 3), !.x = value % 8, !.w = 1]
    ELSE [s EXCEPT !.t = BitOr(BitOr(BitAnd(@, 3103), Shl(BitAnd(value, 248), 2, 16)),
                               Shl(value % 8, 12, 16)),
                   !.w = 0]

write_scroll(s, value) ==
    IF s.w = 0
    THEN [s EXCEPT !.t = BitOr(BitAnd(@, 32736), Shr(value, 3)),
                   !.x = value % 8,
                   !.w = 1]
    ELSE [s EXCEPT !.t = BitOr(BitOr(BitAnd(@, 3103), Shl(BitAnd(value, 248), 2, 16)),
                               Shl(value % 8, 12, 16)),
                   !.w = 0]

\* Mutant of write_address: the high byte is loaded without its 6-bit mask.
write_address_unmasked(s, value) ==
    IF s.w = 0
    THEN [s EXCEPT !.t = BitOr(BitAnd(@, 33023), Shl(value, 8, 16)),
                   !.w = 1]
    ELSE LET t1 == BitOr(BitAnd(s.t, 65280), value)
         IN [s EXCEPT !.t = t1, !.v = t1, !.w = 0]

write_address(s, value) ==
    IF s.w = 0
    THEN [s EXCEPT !.t = BitOr(BitAnd(@, 33023), Shl(value % 64, 8, 16)),
                   !.w = 1]
    ELSE LET t1 == BitOr(BitAnd(s.t, 65280), value)
         IN [s EXCEPT !.t = t1, !.v = t1, !.w = 0]

\* PPUState::write_data: [s, mp, panic]
write_data(s, mp, value, build) ==
    LET wr == write(s, mp, s.v, value)
        next == AddU16(s.v, IF s.flg_increment = 0 THEN 1 ELSE 32, build)
    IN IF wr.panic # "none" THEN [s |-> s, mp |-> mp, panic |-> wr.panic]
       ELSE [s |-> [wr.s EXCEPT !.v = next.value], mp |-> wr.mp, panic |-> next.panic]

\* PPUState::write_register: [s, mp, panic]
write_register(s, mp, address, value, build) ==
    LET s0 == [s EXCEPT !.register = value]
        plain(s1) == [s |-> s1, mp |-> mp, panic |-> "none"]
    IN CASE address = 8192 -> plain(write_control(s0, value))
         [] address = 8193 -> plain(write_mask(s0, value))
         [] address = 8195 -> plain(write_oam_address(s0, value))
         [] address = 8196 -> plain(write_oam_data(s0, value))
         [] address = 8197 -> plain(write_scroll(s0, value))
         [] address = 8198 -> plain(write_address(s0, value))
         [] address = 8199 -> write_data(s0, mp, value, build)
         [] OTHER -> plain(s0)

copy_y(s) ==
    [s EXCEPT !.v = BitOr(BitAnd(@, Not16(31712)), BitAnd(s.t, 31712))]

\* Mutant of increment_x: the wrap of coarse-X keeps the nametable.
increment_x_same_table(s) ==
    IF s.v % 32 = 31
    THEN [s EXCEPT !.v = BitAnd(@, 65504)]
    ELSE [s EXCEPT !.v = @ + 1]

increment_x(s) ==
    IF s.v % 32 = 31
    THEN [s EXCEPT !.v = BitXor(BitAnd(@, 65504), 1024)]
    ELSE [s EXCEPT !.v = @ + 1]

\* Mutant of increment_y: coarse-Y 31 switches the nametable as 29 does.
increment_y_switch_31(s) ==
    IF BitAnd(s.v, 28672) # 28672
    THEN [s EXCEPT !.v = @ + 4096]
    ELSE LET v1 == BitAnd(s.v, 36863)
             cy == Shr(BitAnd(v1, 992), 5)
             v2 == IF cy = 29 \/ cy = 31 THEN BitXor(v1, 2048) ELSE v1
             y == IF cy = 29 \/ cy = 31 THEN 0 ELSE cy + 1
         IN [s EXCEPT !.v = BitOr(BitAnd(v2, 64543), Shl(y, 5, 16))]

increment_y(s) ==
    IF BitAnd(s.v, 28672) # 28672
    THEN [s EXCEPT !.v = @ + 4096]
    ELSE LET v1 == BitAnd(s.v, 36863)
             cy == Shr(BitAnd(v1, 992), 5)
             v2 == IF cy = 29 THEN BitXor(v1, 2048) ELSE v1
             y == IF cy = 29 \/ cy = 31 THEN 0 ELSE cy + 1
         IN [s EXCEPT !.v = BitOr(BitAnd(v2, 64543), Shl(y, 5, 16))]

copy_x(s) ==
    [s EXCEPT !.v = BitOr(BitAnd(@, Not16(1055)), BitAnd(s.t, 1055))]

----------------------------------------------------------------------------
(* PPU (the renderer)                                                      *)

\* The 64 colours of PALETTE, as the low 24 bits (0xRRGGBB) of each ARGB
\* word; the alpha byte of every entry is 0xFF.
PALETTE ==
    << 7697781, 2562959, 171, 4653215, 9371767, 11206675, 10944512, 8325888,
       4402944, 18176, 20736, 16151, 1785695, 0, 0, 0,
       12369084, 29679, 2309103, 8585459, 12517567, 15138907, 14363392, 13324047,
       9138944, 38656, 43776, 37691, 33675, 0, 0, 0,
       16777215, 4177919, 6264831, 10980349, 16219135, 16742327, 16742243, 16751419,
       15974207, 8639251, 5234507, 5830808, 60379, 0, 0, 0,
       16777215, 11266047, 13096959, 14142463, 16762879, 16762843, 16760755, 16767915,
       16770979, 14942115, 11269055, 11796431, 10485747, 0, 0, 0 >>

Zeros(n) == [i \in 1..n |-> 0]

\* PPU::new before its call of reset.  tiledata (u64) is kept as its 16
\* nibbles and each sprite pattern (u32) as its 8 nibbles, most significant
\* first.
PPUNew ==
    [ cycle |-> 0, scanline |-> 0,
      nametable_byte |-> 0, attributetable_byte |-> 0,
      lowtile_byte |-> 0, hightile_byte |-> 0,
      tiledata |-> Zeros(16),
      f |-> 0,
      sprite_count |-> 0,
      sprite_patterns |-> [i \in 0..7 |-> Zeros(8)],
      sprite_positions |-> [i \in 0..7 |-> 0],
      sprite_priorities |-> [i \in 0..7 |-> 0],
      sprite_indices |-> [i \in 0..7 |-> 0] ]

\* The machine a PPU operation runs on: s = m.ppu, p = self, mp = m.mapper,
\* nmi = calls of m.cpu.set_nmi, blits = calls of video.blit_pixels,
\* buf = last v_buffer.write, frame = frame_happened, panic.
Machine(s, p, mp, nmi, blits, buf) ==
    [s |-> s, p |-> p, mp |-> mp, nmi |-> nmi, blits |-> blits, buf |-> buf,
     frame |-> FALSE, panic |-> "none"]

Panic(M, r) == IF M.panic # "none" THEN M.panic ELSE r.panic

\* Mutant of reset: PPUMASK is left as it was.
reset_keeps_mask(M) ==
    [M EXCEPT !.p.cycle = 340,
              !.p.scanline = 240,
              !.s = write_oam_address(write_control(@, 0), 0)]

\* PPU::reset
reset(M) ==
    [M EXCEPT !.p.cycle = 340,
              !.p.scanline = 240,
              !.s = write_oam_address(write_mask(write_control(@, 0), 0), 0)]

\* PPU::clear_vbuffers
clear_vbuffers(M) == [M EXCEPT !.buf = <<>>]

\* MemoryBus::reset, as far as the PPU goes.  The function is defined
\* outside these sources, so what it does to the PPU registers the bus owns
\* is one of two outcomes: it keeps them as they are, or, as the
\* specification has a reset do, it returns them to their initial state,
\* that of PPUState::new.
MemoryBusOutcomes == {"kept", "initial"}

MemoryBus_reset(M, outcome) ==
    IF outcome = "initial" THEN [M EXCEPT !.s = PPUStateDefault] ELSE M

\* Console::reset, as far as the PPU goes: MemoryBus::reset, PPU::reset,
\* then PPU::clear_vbuffers.  CPU::reset, which it calls first, is defined
\* outside these sources and does not own PPU state.
console_reset(M, outcome) == clear_vbuffers(reset(MemoryBus_reset(M, outcome)))

fetch_nametable_byte(M) ==
    LET v == M.s.v
        address == BitOr(8192, v % 4096)
        r == read(M.s, M.mp, address)
    IN [M EXCEPT !.p.nametable_byte = r.value, !.panic = Panic(M, r)]

fetch_attributetable_byte(M) ==
    LET v == M.s.v
        address == BitOr(BitOr(BitOr(9152, BitAnd(v, 3072)), BitAnd(Shr(v, 4), 56)),
                         BitAnd(Shr(v, 2), 7))
        shift == BitOr(BitAnd(Shr(v, 4), 4), BitAnd(v, 2))
        r == read(M.s, M.mp, address)
    IN [M EXCEPT !.p.attributetable_byte = Shl(Shr(r.value, shift) % 4, 2, 8),
                 !.panic = Panic(M, r)]

TileAddress(M) ==
    LET fine_y == Shr(M.s.v, 12) % 8
        table == M.s.flg_backgroundtable
        tile == M.p.nametable_byte
    IN 4096 * table + tile * 16 + fine_y

fetch_lowtile_byte(M) ==
    LET r == read(M.s, M.mp, TileAddress(M))
    IN [M EXCEPT !.p.lowtile_byte = r.value, !.panic = Panic(M, r)]

fetch_hightile_byte(M) ==
    LET r == read(M.s, M.mp, TileAddress(M) + 8)
    IN [M EXCEPT !.p.hightile_byte = r.value, !.panic = Panic(M, r)]

\* bit n of a byte
Bit(b, n) == Shr(b, n) % 2

\* tiledata |= data, nibble by nibble, into the low 32 bits
store_tiledata(M) ==
    LET a == M.p.attributetable_byte
        lo == M.p.lowtile_byte
        hi == M.p.hightile_byte
        data == [i \in 1..8 |-> BitOr(a, BitOr(Bit(lo, 8 - i), 2 * Bit(hi, 8 - i)))]
    IN [M EXCEPT !.p.lowtile_byte = Shl(lo, 8, 8),
                 !.p.hightile_byte = Shl(hi, 8, 8),
                 !.p.tiledata = [i \in 1..16 |->
                                   IF i <= 8 THEN @[i] ELSE BitOr(@[i], data[i - 8])]]

\* PPU::fetch_sprite_pattern: [data, panic]
fetch_sprite_pattern(M, i, row0) ==
    LET tile0 == Peek(M.s.oam, i * 4 + 1)
        attributes == Peek(M.s.oam, i * 4 + 2)
        vflip == BitAnd(attributes, 128) = 128
        hflip == BitAnd(attributes, 64) = 64
        small == M.s.flg_spritesize = 0
        row1 == IF vflip THEN (IF small THEN 7 - row0 ELSE 15 - row0) ELSE row0
        table == IF small THEN M.s.flg_spritetable ELSE tile0 % 2
        tile1 == IF small THEN tile0 ELSE BitAnd(tile0, 254)
        tile == IF ~small /\ row1 > 7 THEN tile1 + 1 ELSE tile1
        row == IF ~small /\ row1 > 7 THEN row1 - 8 ELSE row1
        address == 4096 * table + tile * 16 + row
        a == Shl(attributes % 4, 2, 8)
        lo == read(M.s, M.mp, address)
        hi == read(M.s, M.mp, address + 8)
        px(k) == IF hflip
                 THEN BitOr(a, BitOr(Bit(lo.value, k - 1), 2 * Bit(hi.value, k - 1)))
                 ELSE BitOr(a, BitOr(Bit(lo.value, 8 - k), 2 * Bit(hi.value, 8 - k)))
    IN [data |-> [k \in 1..8 |-> px(k)],
        panic |-> IF lo.panic # "none" THEN lo.panic ELSE hi.panic]

\* The OAM entries in range on the current scanline, in OAM order.
RECURSIVE InRange(_, _, _)
InRange(M, h, i) ==
    IF i > 63 THEN <<>>
    ELSE LET row == M.p.scanline - Peek(M.s.oam, i * 4)
         IN (IF row < 0 \/ row >= h THEN <<>> ELSE <<i>>) \o InRange(M, h, i + 1)

\* Mutant of evaluate_sprites: eight sprites in range already overflow.
evaluate_sprites_eager(M) ==
    LET h == IF M.s.flg_spritesize = 0 THEN 8 ELSE 16
        found == InRange(M, h, 0)
        total == Len(found)
        kept == IF total < 8 THEN total ELSE 8
        slot(c) == found[c + 1]
        pat(c) == fetch_sprite_pattern(M, slot(c), M.p.scanline - Peek(M.s.oam, slot(c) * 4))
        panics == {pat(c).panic : c \in 0..(kept - 1)} \ {"none"}
    IN [M EXCEPT
          !.p.sprite_patterns = [c \in 0..7 |-> IF c < kept THEN pat(c).data ELSE @[c]],
          !.p.sprite_positions =
              [c \in 0..7 |-> IF c < kept THEN Peek(M.s.oam, slot(c) * 4 + 3) ELSE @[c]],
          !.p.sprite_priorities =
              [c \in 0..7 |-> IF c < kept THEN Shr(Peek(M.s.oam, slot(c) * 4 + 2), 5) % 2
                              ELSE @[c]],
          !.p.sprite_indices = [c \in 0..7 |-> IF c < kept THEN slot(c) ELSE @[c]],
          !.s.flg_spriteoverflow = IF total >= 8 THEN 1 ELSE @,
          !.p.sprite_count = kept,
          !.panic = IF M.panic # "none" \/ panics = {} THEN M.panic
                    ELSE CHOOSE e \in panics : TRUE]

\* PPU::evaluate_sprites
evaluate_sprites(M) ==
    LET h == IF M.s.flg_spritesize = 0 THEN 8 ELSE 16
        found == InRange(M, h, 0)
        total == Len(found)
        kept == IF total < 8 THEN total ELSE 8
        slot(c) == found[c + 1]
        pat(c) == fetch_sprite_pattern(M, slot(c), M.p.scanline - Peek(M.s.oam, slot(c) * 4))
        panics == {pat(c).panic : c \in 0..(kept - 1)} \ {"none"}
    IN [M EXCEPT
          !.p.sprite_patterns = [c \in 0..7 |-> IF c < kept THEN pat(c).data ELSE @[c]],
          !.p.sprite_positions =
              [c \in 0..7 |-> IF c < kept THEN Peek(M.s.oam, slot(c) * 4 + 3) ELSE @[c]],
          !.p.sprite_priorities =
              [c \in 0..7 |-> IF c < kept THEN Shr(Peek(M.s.oam, slot(c) * 4 + 2), 5) % 2
                              ELSE @[c]],
          !.p.sprite_indices = [c \in 0..7 |-> IF c < kept THEN slot(c) ELSE @[c]],
          !.s.flg_spriteoverflow = IF total > 8 THEN 1 ELSE @,
          !.p.sprite_count = kept,
          !.panic = IF M.panic # "none" \/ panics = {} THEN M.panic
                    ELSE CHOOSE e \in panics : TRUE]

set_vblank(M) ==
    [M EXCEPT !.blits = @ + 1,
              !.s = nmi_change([@ EXCEPT !.nmi_occurred = TRUE])]

clear_vblank(M) ==
    [M EXCEPT !.s = nmi_change([@ EXCEPT !.nmi_occurred = FALSE])]

\* (self.tiledata >> 32) as u32: the 8 high nibbles
fetch_tiledata(M) == SubSeq(M.p.tiledata, 1, 8)

background_pixel(M) ==
    IF M.s.flg_showbg = 0 THEN 0
    ELSE fetch_tiledata(M)[8 - (7 - M.s.x)]

\* The sprite slots whose pixel at this dot is opaque, in slot order.
SpriteHits(M) ==
    { i \in 0..(M.p.sprite_count - 1) :
        LET offset == (M.p.cycle - 1) - M.p.sprite_positions[i]
        IN /\ offset >= 0 /\ offset <= 7
           /\ M.p.sprite_patterns[i][offset + 1] % 4 # 0 }

\* PPU::sprite_pixel: <<slot, color>>
sprite_pixel(M) ==
    IF M.s.flg_showsprites = 0 \/ SpriteHits(M) = {} THEN <<0, 0>>
    ELSE LET i == CHOOSE j \in SpriteHits(M) : \A k \in SpriteHits(M) : j <= k
         IN <<i, M.p.sprite_patterns[i][(M.p.cycle - 1) - M.p.sprite_positions[i] + 1]>>

\* Mutant of render_pixel: the hit is also taken at x = 255.
render_pixel_edge(M) ==
    LET x == M.p.cycle - 1
        y == M.p.scanline
        sp0 == sprite_pixel(M)
        i == sp0[1]
        background == IF x < 8 /\ M.s.flg_showleftbg = 0 THEN 0 ELSE background_pixel(M)
        sprite == IF x < 8 /\ M.s.flg_showleftsprites = 0 THEN 0 ELSE sp0[2]
        bg == background % 4 # 0
        sp == sprite % 4 # 0
        hit == bg /\ sp /\ M.p.sprite_indices[i] = 0
        color == IF ~bg /\ ~sp THEN 0
                 ELSE IF ~bg /\ sp THEN BitOr(sprite, 16)
                 ELSE IF bg /\ ~sp THEN background
                 ELSE IF M.p.sprite_priorities[i] = 0 THEN BitOr(sprite, 16)
                 ELSE background
        index0 == read_palette(M.s, color) % 64
        color_index == IF M.s.flg_grayscale # 0 THEN BitAnd(index0, 48) ELSE index0
        argb == <<255, PALETTE[color_index + 1]>>
    IN [M EXCEPT !.s.flg_sprite0hit = IF hit THEN 1 ELSE @,
                 !.buf = [x |-> x, y |-> y, argb |-> argb]]

\* PPU::render_pixel
render_pixel(M) ==
    LET x == M.p.cycle - 1
        y == M.p.scanline
        sp0 == sprite_pixel(M)
        i == sp0[1]
        background == IF x < 8 /\ M.s.flg_showleftbg = 0 THEN 0 ELSE background_pixel(M)
        sprite == IF x < 8 /\ M.s.flg_showleftsprites = 0 THEN 0 ELSE sp0[2]
        bg == background % 4 # 0
        sp == sprite % 4 # 0
        hit == bg /\ sp /\ M.p.sprite_indices[i] = 0 /\ x < 255
        color == IF ~bg /\ ~sp THEN 0
                 ELSE IF ~bg /\ sp THEN BitOr(sprite, 16)
                 ELSE IF bg /\ ~sp THEN background
                 ELSE IF M.p.sprite_priorities[i] = 0 THEN BitOr(sprite, 16)
                 ELSE background
        index0 == read_palette(M.s, color) % 64
        color_index == IF M.s.flg_grayscale # 0 THEN BitAnd(index0, 48) ELSE index0
        argb == <<255, PALETTE[color_index + 1]>>
    IN [M EXCEPT !.s.flg_sprite0hit = IF hit THEN 1 ELSE @,
                 !.buf = [x |-> x, y |-> y, argb |-> argb]]

\* Mutant of tick: a scanline is one dot short.
tick_short_line(M) ==
    LET delay == M.s.nmi_delay
        counted == delay > 0
        delay1 == IF counted THEN delay - 1 ELSE delay
        was_nmi == M.s.nmi_output /\ M.s.nmi_occurred
        fire == counted /\ delay1 = 0 /\ was_nmi
        M1 == [M EXCEPT !.s.nmi_delay = delay1,
                        !.nmi = IF fire THEN @ + 1 ELSE @]
        show_something == M.s.flg_showbg # 0 \/ M.s.flg_showsprites # 0
        should_reset == M.p.f = 1 /\ M.p.scanline = 261 /\ M.p.cycle = 339
        cycle1 == M.p.cycle + 1
        scanline1 == M.p.scanline + 1
    IN IF show_something /\ should_reset
       THEN [M1 EXCEPT !.p.cycle = 0, !.p.scanline = 0, !.p.f = BitXor(@, 1)]
       ELSE IF cycle1 > 339
         THEN IF scanline1 > 261
              THEN [M1 EXCEPT !.p.cycle = 0, !.p.scanline = 0, !.p.f = BitXor(@, 1)]
              ELSE [M1 EXCEPT !.p.cycle = 0, !.p.scanline = scanline1]
         ELSE [M1 EXCEPT !.p.cycle = cycle1]

\* Mutant of tick: the pre-render line of an odd frame is never cut short.
tick_no_skip(M) ==
    LET delay == M.s.nmi_delay
        counted == delay > 0
        delay1 == IF counted THEN delay - 1 ELSE delay
        was_nmi == M.s.nmi_output /\ M.s.nmi_occurred
        fire == counted /\ delay1 = 0 /\ was_nmi
        M1 == [M EXCEPT !.s.nmi_delay = delay1,
                        !.nmi = IF fire THEN @ + 1 ELSE @]
        show_something == M.s.flg_showbg # 0 \/ M.s.flg_showsprites # 0
        should_reset == M.p.f = 1 /\ M.p.scanline = 261 /\ M.p.cycle = 339
        cycle1 == M.p.cycle + 1
        scanline1 == M.p.scanline + 1
    IN IF show_something /\ should_reset /\ M.p.f = 0
       THEN [M1 EXCEPT !.p.cycle = 0, !.p.scanline = 0, !.p.f = BitXor(@, 1)]
       ELSE IF cycle1 > 340
         THEN IF scanline1 > 261
              THEN [M1 EXCEPT !.p.cycle = 0, !.p.scanline = 0, !.p.f = BitXor(@, 1)]
              ELSE [M1 EXCEPT !.p.cycle = 0, !.p.scanline = scanline1]
         ELSE [M1 EXCEPT !.p.cycle = cycle1]

\* Mutant of tick: the short pre-render line is taken in every frame.
tick_always_skip(M) ==
    LET delay == M.s.nmi_delay
        counted == delay > 0
        delay1 == IF counted THEN delay - 1 ELSE delay
        was_nmi == M.s.nmi_output /\ M.s.nmi_occurred
        fire == counted /\ delay1 = 0 /\ was_nmi
        M1 == [M EXCEPT !.s.nmi_delay = delay1,
                        !.nmi = IF fire THEN @ + 1 ELSE @]
        show_something == M.s.flg_showbg # 0 \/ M.s.flg_showsprites # 0
        should_reset == M.p.scanline = 261 /\ M.p.cycle = 339
        cycle1 == M.p.cycle + 1
        scanline1 == M.p.scanline + 1
    IN IF show_something /\ should_reset
       THEN [M1 EXCEPT !.p.cycle = 0, !.p.scanline = 0, !.p.f = BitXor(@, 1)]
       ELSE IF cycle1 > 340
         THEN IF scanline1 > 261
              THEN [M1 EXCEPT !.p.cycle = 0, !.p.scanline = 0, !.p.f = BitXor(@, 1)]
              ELSE [M1 EXCEPT !.p.cycle = 0, !.p.scanline = scanline1]
         ELSE [M1 EXCEPT !.p.cycle = cycle1]

\* Mutant of tick: the odd-frame skip leaves f as it was.
tick_skip_keeps_f(M) ==
    LET delay == M.s.nmi_delay
        counted == delay > 0
        delay1 == IF counted THEN delay - 1 ELSE delay
        was_nmi == M.s.nmi_output /\ M.s.nmi_occurred
        fire == counted /\ delay1 = 0 /\ was_nmi
        M1 == [M EXCEPT !.s.nmi_delay = delay1,
                        !.nmi = IF fire THEN @ + 1 ELSE @]
        show_something == M.s.flg_showbg # 0 \/ M.s.flg_showsprites # 0
        should_reset == M.p.f = 1 /\ M.p.scanline = 261 /\ M.p.cycle = 339
        cycle1 == M.p.cycle + 1
        scanline1 == M.p.scanline + 1
    IN IF show_something /\ should_reset
       THEN [M1 EXCEPT !.p.cycle = 0, !.p.scanline = 0]
       ELSE IF cycle1 > 340
         THEN IF scanline1 > 261
              THEN [M1 EXCEPT !.p.cycle = 0, !.p.scanline = 0, !.p.f = BitXor(@, 1)]
              ELSE [M1 EXCEPT !.p.cycle = 0, !.p.scanline = scanline1]
         ELSE [M1 EXCEPT !.p.cycle = cycle1]

\* Mutant of tick: a scanline is one dot long.
tick_long_line(M) ==
    LET delay == M.s.nmi_delay
        counted == delay > 0
        delay1 == IF counted THEN delay - 1 ELSE delay
        was_nmi == M.s.nmi_output /\ M.s.nmi_occurred
        fire == counted /\ delay1 = 0 /\ was_nmi
        M1 == [M EXCEPT !.s.nmi_delay = delay1,
                        !.nmi = IF fire THEN @ + 1 ELSE @]
        show_something == M.s.flg_showbg # 0 \/ M.s.flg_showsprites # 0
        should_reset == M.p.f = 1 /\ M.p.scanline = 261 /\ M.p.cycle = 339
        cycle1 == M.p.cycle + 1
        scanline1 == M.p.scanline + 1
    IN IF show_something /\ should_reset
       THEN [M1 EXCEPT !.p.cycle = 0, !.p.scanline = 0, !.p.f = BitXor(@, 1)]
       ELSE IF cycle1 > 341
         THEN IF scanline1 > 261
              THEN [M1 EXCEPT !.p.cycle = 0, !.p.scanline = 0, !.p.f = BitXor(@, 1)]
              ELSE [M1 EXCEPT !.p.cycle = 0, !.p.scanline = scanline1]
         ELSE [M1 EXCEPT !.p.cycle = cycle1]

\* Mutant of tick: set_nmi is called whenever the countdown ends.
tick_unconditional_nmi(M) ==
    LET delay == M.s.nmi_delay
        counted == delay > 0
        delay1 == IF counted THEN delay - 1 ELSE delay
        fire == counted /\ delay1 = 0
        M1 == [M EXCEPT !.s.nmi_delay = delay1,
                        !.nmi = IF fire THEN @ + 1 ELSE @]
        show_something == M.s.flg_showbg # 0 \/ M.s.flg_showsprites # 0
        should_reset == M.p.f = 1 /\ M.p.scanline = 261 /\ M.p.cycle = 339
        cycle1 == M.p.cycle + 1
        scanline1 == M.p.scanline + 1
    IN IF show_something /\ should_reset
       THEN [M1 EXCEPT !.p.cycle = 0, !.p.scanline = 0, !.p.f = BitXor(@, 1)]
       ELSE IF cycle1 > 340
         THEN IF scanline1 > 261
              THEN [M1 EXCEPT !.p.cycle = 0, !.p.scanline = 0, !.p.f = BitXor(@, 1)]
              ELSE [M1 EXCEPT !.p.cycle = 0, !.p.scanline = scanline1]
         ELSE [M1 EXCEPT !.p.cycle = cycle1]

\* PPU::tick
tick(M) ==
    LET delay == M.s.nmi_delay
        counted == delay > 0
        delay1 == IF counted THEN delay - 1 ELSE delay
        was_nmi == M.s.nmi_output /\ M.s.nmi_occurred
        fire == counted /\ delay1 = 0 /\ was_nmi
        M1 == [M EXCEPT !.s.nmi_delay = delay1,
                        !.nmi = IF fire THEN @ + 1 ELSE @]
        show_something == M.s.flg_showbg # 0 \/ M.s.flg_showsprites # 0
        should_reset == M.p.f = 1 /\ M.p.scanline = 261 /\ M.p.cycle = 339
        cycle1 == M.p.cycle + 1
        scanline1 == M.p.scanline + 1
    IN IF show_something /\ should_reset
       THEN [M1 EXCEPT !.p.cycle = 0, !.p.scanline = 0, !.p.f = BitXor(@, 1)]
       ELSE IF cycle1 > 340
         THEN IF scanline1 > 261
              THEN [M1 EXCEPT !.p.cycle = 0, !.p.scanline = 0, !.p.f = BitXor(@, 1)]
              ELSE [M1 EXCEPT !.p.cycle = 0, !.p.scanline = scanline1]
         ELSE [M1 EXCEPT !.p.cycle = cycle1]

\* The predicates PPU::step computes after the tick.
Rendering(M) == M.s.flg_showbg # 0 \/ M.s.flg_showsprites # 0

PreLine(M) == M.p.scanline = 261

VisibleLine(M) == M.p.scanline < 240

RenderLine(M) == PreLine(M) \/ VisibleLine(M)

PrefetchCycle(M) == M.p.cycle >= 321 /\ M.p.cycle <= 336

VisibleCycle(M) == M.p.cycle >= 1 /\ M.p.cycle <= 256

FetchCycle(M) == PrefetchCycle(M) \/ VisibleCycle(M)

\* The background fetch of one dot: tiledata <<= 4, then the match on cycle % 8.
FetchDot(M) ==
    LET M1 == [M EXCEPT !.p.tiledata = Tail(@) \o <<0>>]
        k == M.p.cycle % 8
    IN CASE k = 1 -> fetch_nametable_byte(M1)
         [] k = 3 -> fetch_attributetable_byte(M1)
         [] k = 5 -> fetch_lowtile_byte(M1)
         [] k = 7 -> fetch_hightile_byte(M1)
         [] k = 0 -> store_tiledata(M1)
         [] OTHER -> M1

\* The statements of PPU::step after the tick, in order.
RenderStage(M) ==
    IF Rendering(M) /\ VisibleLine(M) /\ VisibleCycle(M) THEN render_pixel(M) ELSE M

FetchStage(M) ==
    IF Rendering(M) /\ RenderLine(M) /\ FetchCycle(M) THEN FetchDot(M) ELSE M

CopyYStage(M) ==
    IF Rendering(M) /\ PreLine(M) /\ M.p.cycle >= 280 /\ M.p.cycle <= 304
    THEN [M EXCEPT !.s = copy_y(@)] ELSE M

IncrementXStage(M) ==
    IF Rendering(M) /\ RenderLine(M) /\ FetchCycle(M) /\ M.p.cycle % 8 = 0
    THEN [M EXCEPT !.s = increment_x(@)] ELSE M

IncrementYStage(M) ==
    IF Rendering(M) /\ RenderLine(M) /\ M.p.cycle = 256
    THEN [M EXCEPT !.s = increment_y(@)] ELSE M

CopyXStage(M) ==
    IF Rendering(M) /\ RenderLine(M) /\ M.p.cycle = 257
    THEN [M EXCEPT !.s = copy_x(@)] ELSE M

SpriteStage(M) ==
    IF Rendering(M) /\ M.p.cycle = 257
    THEN IF VisibleLine(M) THEN evaluate_sprites(M)
         ELSE [M EXCEPT !.p.sprite_count = 0]
    ELSE M

\* Mutant of VblankStage: the vertical blank starts one dot early.
VblankStage_early(M) ==
    IF M.p.scanline = 241 /\ M.p.cycle = 0
    THEN [set_vblank(M) EXCEPT !.frame = TRUE] ELSE M

VblankStage(M) ==
    IF M.p.scanline = 241 /\ M.p.cycle = 1
    THEN [set_vblank(M) EXCEPT !.frame = TRUE] ELSE M

\* Mutant of PreLineStage: the flags are cleared one dot late.
PreLineStage_late(M) ==
    IF PreLine(M) /\ M.p.cycle = 2
    THEN [clear_vblank(M) EXCEPT !.s.flg_sprite0hit = 0, !.s.flg_spriteoverflow = 0]
    ELSE M

PreLineStage(M) ==
    IF PreLine(M) /\ M.p.cycle = 1
    THEN [clear_vblank(M) EXCEPT !.s.flg_sprite0hit = 0, !.s.flg_spriteoverflow = 0]
    ELSE M

\* PPU::step
step(M) ==
    PreLineStage(VblankStage(SpriteStage(CopyXStage(IncrementYStage(
        IncrementXStage(CopyYStage(FetchStage(RenderStage(
            tick([M EXCEPT !.frame = FALSE]))))))))))

----------------------------------------------------------------------------
(* The state machine: the operations of the program, without the           *)
(* observation log, which each specification keeps for itself.             *)

Cur == Machine(m_ppu, ppu, mapper, cpu_nmi, video, v_buffer)

\* PPUState::new, then PPU::new (which ends with PPU::reset).
Constructed(mp) == reset(Machine(PPUStateDefault, PPUNew, mp, 0, 0, <<>>))

Install(M) ==
    /\ m_ppu' = M.s
    /\ ppu' = M.p
    /\ mapper' = M.mp
    /\ cpu_nmi' = M.nmi
    /\ video' = M.blits
    /\ v_buffer' = M.buf

\* A call of PPUState::read_register by the CPU.
ReadRegisterOp(address) ==
    /\ panicked = "none"
    /\ \E build \in Builds :
         LET r == read_register(m_ppu, mapper, address, build)
         IN /\ m_ppu' = r.s
            /\ ret' = r.value
            /\ panicked' = r.panic
    /\ UNCHANGED <<ppu, mapper, cpu_nmi, video, v_buffer, ticks>>

\* A call of PPUState::write_register by the CPU.
WriteRegisterOp(address, value) ==
    /\ panicked = "none"
    /\ \E build \in Builds :
         LET r == write_register(m_ppu, mapper, address, value, build)
         IN /\ m_ppu' = r.s
            /\ mapper' = r.mp
            /\ panicked' = r.panic
    /\ UNCHANGED <<ppu, cpu_nmi, video, v_buffer, ret, ticks>>

\* A call of PPU::step.
StepOp ==
    /\ panicked = "none"
    /\ LET M == step(Cur)
       IN /\ Install(M)
          /\ ret' = M.frame
          /\ panicked' = M.panic
    /\ ticks' = ticks + 1

InitConsole(mp, h, c) ==
    LET M == Constructed(mp)
    IN /\ m_ppu = M.s
       /\ ppu = M.p
       /\ mapper = M.mp
       /\ cpu_nmi = 0
       /\ video = 0
       /\ v_buffer = <<>>
       /\ ret = 0
       /\ panicked = "none"
       /\ ticks = 0
       /\ hist = h
       /\ con = c

InitWith(mp, h) == InitConsole(mp, h, <<>>)

TheMapper == [mode |-> "horizontal", chr |-> <<255, 0>>]

----------------------------------------------------------------------------
(* Spec: register accesses interleaved with PPU steps, from construction.  *)
(* The log keeps, when the last operation was a read of PPUSTATUS, the     *)
(* nmi_occurred and w it found; the tick of the last vblank onset (the step that *)
(* landed on scanline 241, cycle 1), whether a register was accessed since *)
(* and the ticks at which set_nmi was called since.                        *)

MaxTicks == 20

HistInit ==
    [ status |-> <<>>,
      onset |-> -1, onset_output |-> FALSE, quiet |-> TRUE, fired |-> <<>> ]

HistAccess(h, kind, address) ==
    [h EXCEPT !.status = IF kind = "read" /\ address = 8194
                          THEN <<m_ppu.nmi_occurred, m_ppu.w>> ELSE <<>>,
              !.quiet = FALSE]

HistStep(h, M, now) ==
    LET landed == M.p.scanline = 241 /\ M.p.cycle = 1
        called == M.nmi > cpu_nmi
    IN [h EXCEPT !.status = <<>>,
                 !.onset = IF landed THEN now ELSE @,
                 !.onset_output = IF landed THEN M.s.nmi_output ELSE @,
                 !.quiet = IF landed THEN TRUE ELSE @,
                 !.fired = IF landed THEN <<>>
                           ELSE IF called THEN Append(@, now) ELSE @]

\* The bytes the CPU writes in this specification.
WriteValues(address) ==
    CASE address = 8192 -> {0, 128, 156}
      [] OTHER -> {0}

WriteAddresses == {8192, 8197, 8198}

ReadAddresses == {8194, 8196}

Init == InitWith(TheMapper, HistInit)

Read ==
    \E address \in ReadAddresses :
        /\ ReadRegisterOp(address)
        /\ hist' = HistAccess(hist, "read", address)
        /\ UNCHANGED con

Write ==
    \E address \in WriteAddresses : \E value \in WriteValues(address) :
        /\ WriteRegisterOp(address, value)
        /\ hist' = HistAccess(hist, "write", address)
        /\ UNCHANGED con

Step ==
    /\ ticks < MaxTicks
    /\ StepOp
    /\ hist' = HistStep(hist, step(Cur), ticks + 1)
    /\ UNCHANGED con

Next == Read \/ Write \/ Step

Spec == Init /\ [][Next]_vars

\* C1: a read of PPUSTATUS returns in bit 7 the nmi_occurred it found, and
\* leaves w = 0 and nmi_occurred = FALSE.
C1_StatusRead ==
    hist.status # <<>> =>
        /\ Shr(ret, 7) = Bool2Bit(hist.status[1])
        /\ m_ppu.w = 0
        /\ ~m_ppu.nmi_occurred

\* A PPUSTATUS read that found the vblank flag set and the toggle at 1.
C1_Witness == hist.status = <<TRUE, 1>> /\ ret >= 128

\* C2: after a vblank onset with NMI output enabled and no register access
\* since, nmi_delay is 15 at the onset and set_nmi is called exactly once, on
\* the 15th tick after the onset.
C2_NmiAfterOnset ==
    (hist.onset >= 0 /\ hist.onset_output /\ hist.quiet) =>
        /\ ticks = hist.onset => m_ppu.nmi_delay = 15
        /\ ticks < hist.onset + 15 => hist.fired = <<>>
        /\ ticks >= hist.onset + 15 => hist.fired = <<hist.onset + 15>>

\* Two ticks past the NMI of an undisturbed onset.
C2_Witness ==
    /\ hist.onset >= 0 /\ hist.onset_output /\ hist.quiet
    /\ ticks > hist.onset + 16
    /\ hist.fired = <<hist.onset + 15>>
    /\ cpu_nmi = 1

----------------------------------------------------------------------------
(* SpecReg: sequences of at most MaxRegOps accesses of the write-sequenced *)
(* registers (PPUCTRL, PPUSCROLL, PPUADDR, PPUSTATUS), from construction.  *)
(* The log keeps every access as <<kind, address, value, w before it>> and *)
(* t as it was before the last one.                                        *)

MaxRegOps == 6

RegHistInit == [ops |-> <<>>, t_before |-> 0]

RegHistAccess(h, kind, address, value) ==
    [h EXCEPT !.ops = Append(@, <<kind, address, value, m_ppu.w>>),
              !.t_before = m_ppu.t]

RegWriteValues(address) ==
    CASE address = 8192 -> {3}
      [] address = 8197 -> {255, 125}
      [] OTHER -> {255, 33}

RegWriteAddresses == {8192, 8197, 8198}

RegInit == InitWith(TheMapper, RegHistInit)

RegRead ==
    /\ Len(hist.ops) < MaxRegOps
    /\ ReadRegisterOp(8194)
    /\ hist' = RegHistAccess(hist, "read", 8194, 0)
    /\ UNCHANGED con

RegWrite ==
    \E address \in RegWriteAddresses : \E value \in RegWriteValues(address) :
        /\ Len(hist.ops) < MaxRegOps
        /\ WriteRegisterOp(address, value)
        /\ hist' = RegHistAccess(hist, "write", address, value)
        /\ UNCHANGED con

RegNext == RegRead \/ RegWrite

SpecReg == RegInit /\ [][RegNext]_vars

\* The n-th most recent access of the log (1 = the last).
Recent(n) == hist.ops[Len(hist.ops) + 1 - n]

IsAccess(op, kind, address) == op[1] = kind /\ op[2] = address

\* The last two accesses were writes to PPUADDR.
AddrPair ==
    /\ Len(hist.ops) >= 2
    /\ IsAccess(Recent(2), "write", 8198)
    /\ IsAccess(Recent(1), "write", 8198)

AddrPairValue == BitOr(Shl(BitAnd(Recent(2)[3], 63), 8, 16), Recent(1)[3])

\* C8 as stated: after any two consecutive PPUADDR writes v_hi, v_lo,
\* v = ((v_hi & 0x3F) << 8) | v_lo, whatever came before.
C8_AnyPrefix == AddrPair => m_ppu.v = AddrPairValue

\* C8 (amended): two consecutive PPUADDR writes v_hi, v_lo that start with the
\* write toggle w at 0 leave v = ((v_hi & 0x3F) << 8) | v_lo.
C8_AddrPair == (AddrPair /\ Recent(2)[4] = 0) => m_ppu.v = AddrPairValue

\* A pair 0xFF, 0x21 written with w = 0 after a PPUSCROLL pair had set the
\* fine-Y bits (12-14) of t.
C8_Witness ==
    /\ AddrPair /\ Recent(2)[4] = 0
    /\ Recent(2)[3] = 255 /\ Recent(1)[3] = 33
    /\ Len(hist.ops) >= 4 /\ IsAccess(Recent(3), "write", 8197)
    /\ m_ppu.v = 16161

\* The last n accesses begin with PPUSCROLL, PPUSCROLL, PPUSTATUS.
ScrollScrollStatus(n) ==
    /\ Len(hist.ops) >= n
    /\ IsAccess(Recent(n), "write", 8197)
    /\ IsAccess(Recent(n - 1), "write", 8197)
    /\ IsAccess(Recent(n - 2), "read", 8194)

\* C9: two PPUSCROLL writes and a PPUSTATUS read leave w = 0, and the next
\* PPUSCROLL write acts as a first write: coarse-X of t = value >> 3,
\* x = value & 7, w = 1, bits 5-14 of t untouched.
C9_ScrollAfterStatus ==
    /\ ScrollScrollStatus(3) => m_ppu.w = 0
    /\ (ScrollScrollStatus(4) /\ IsAccess(Recent(1), "write", 8197)) =>
          /\ m_ppu.w = 1
          /\ m_ppu.t % 32 = Shr(Recent(1)[3], 3)
          /\ m_ppu.x = Recent(1)[3] % 8
          /\ BitAnd(m_ppu.t, 32736) = BitAnd(hist.t_before, 32736)

\* The pattern run from w = 1, ending with a write of 0x7D over a t whose
\* Y bits are set.
C9_Witness ==
    /\ ScrollScrollStatus(4) /\ IsAccess(Recent(1), "write", 8197)
    /\ Recent(4)[4] = 1
    /\ Recent(1)[3] = 125
    /\ BitAnd(hist.t_before, 32736) # 0
    /\ m_ppu.t % 32 = 15

----------------------------------------------------------------------------
(* SpecConsole: Console::step, run for at most MaxInstr instructions from  *)
(* construction.  con is the position inside Console::step: the CPU step,  *)
(* the PPU loop or the APU loop, with the loop index.  The CPU and the APU *)
(* are outside src/: an instruction takes 1..MaxCpuCycles cycles and may   *)
(* access one PPU register; an APU step leaves the PPU alone.              *)
(* The log keeps, for the instruction in progress, its number, its cycles, *)
(* the PPU and APU steps taken for it so far, the PPU registers as the CPU *)
(* step left them and as the first PPU step found them; and, for every     *)
(* finished instruction, <<cycles, PPU steps, APU steps, PPU steps that    *)
(* had run when the first APU step ran>>.                                  *)

MaxInstr == 3

MaxCpuCycles == 2

ConInit == [pc |-> "cpu", cpucycles |-> 0, i |-> 0]

ConHistInit ==
    [instr |-> 0, cycles |-> 0, ppu_steps |-> 0, apu_steps |-> 0,
     ppu_at_apu |-> -1, left |-> <<>>, found |-> <<>>, done |-> <<>>]

\* Mutant of PpuLoopBound: one PPU step too few per instruction.
PpuLoopBound_short(cpucycles) == cpucycles * 3 - 1

\* The bounds of the two loops of Console::step.
PpuLoopBound(cpucycles) == cpucycles * 3

ApuLoopBound(cpucycles) == cpucycles

\* The position after the CPU step or after a loop iteration: empty loops
\* are skipped.
AfterCpu(cpucycles) ==
    IF PpuLoopBound(cpucycles) > 0 THEN [pc |-> "ppu", cpucycles |-> cpucycles, i |-> 0]
    ELSE IF ApuLoopBound(cpucycles) > 0 THEN [pc |-> "apu", cpucycles |-> cpucycles, i |-> 0]
    ELSE [pc |-> "cpu", cpucycles |-> cpucycles, i |-> 0]

AfterPpu(c) ==
    IF c.i + 1 < PpuLoopBound(c.cpucycles) THEN [c EXCEPT !.i = @ + 1]
    ELSE IF ApuLoopBound(c.cpucycles) > 0 THEN [c EXCEPT !.pc = "apu", !.i = 0]
    ELSE [c EXCEPT !.pc = "cpu", !.i = 0]

AfterApu(c) ==
    IF c.i + 1 < ApuLoopBound(c.cpucycles) THEN [c EXCEPT !.i = @ + 1]
    ELSE [c EXCEPT !.pc = "cpu", !.i = 0]

\* The log at a CPU step: the instruction before it is finished.
ConHistCpu(h, cpucycles, left) ==
    [instr |-> h.instr + 1, cycles |-> cpucycles, ppu_steps |-> 0, apu_steps |-> 0,
     ppu_at_apu |-> -1, left |-> <<left>>, found |-> <<>>,
     done |-> IF h.instr = 0 THEN <<>>
              ELSE Append(h.done, <<h.cycles, h.ppu_steps, h.apu_steps, h.ppu_at_apu>>)]

\* The effect of the instruction on the PPU: none, a write of PPUCTRL that
\* enables the NMI output, or a read of PPUSTATUS.
CpuEffect(kind) ==
    CASE kind = "write" -> WriteRegisterOp(8192, 128)
      [] kind = "read" -> ReadRegisterOp(8194)
      [] OTHER -> /\ panicked = "none"
                  /\ UNCHANGED <<m_ppu, ppu, mapper, cpu_nmi, video, v_buffer,
                                 ret, panicked, ticks>>

ConsoleInit == InitConsole(TheMapper, ConHistInit, ConInit)

\* let cpucycles = self.cpu.step();
ConsoleCpu ==
    \E cpucycles \in 1..MaxCpuCycles : \E kind \in {"none", "write", "read"} :
        /\ con.pc = "cpu"
        /\ hist.instr < MaxInstr
        /\ CpuEffect(kind)
        /\ con' = AfterCpu(cpucycles)
        /\ hist' = ConHistCpu(hist, cpucycles, m_ppu')

\* One iteration of: for _ in 0..cpucycles * 3 { self.ppu.step(m) }
ConsolePpu ==
    /\ con.pc = "ppu"
    /\ StepOp
    /\ con' = AfterPpu(con)
    /\ hist' = [hist EXCEPT !.ppu_steps = @ + 1,
                            !.found = IF @ = <<>> THEN <<m_ppu>> ELSE @]

\* One iteration of: for _ in 0..cpucycles { self.apu.step(m) }
ConsoleApu ==
    /\ con.pc = "apu"
    /\ panicked = "none"
    /\ con' = AfterApu(con)
    /\ hist' = [hist EXCEPT !.apu_steps = @ + 1,
                            !.ppu_at_apu = IF @ < 0 THEN hist.ppu_steps ELSE @]
    /\ UNCHANGED <<m_ppu, ppu, mapper, cpu_nmi, video, v_buffer, ret, panicked, ticks>>

ConsoleNext == ConsoleCpu \/ ConsolePpu \/ ConsoleApu

SpecConsole == ConsoleInit /\ [][ConsoleNext]_vars

RECURSIVE CyclesOf(_)
CyclesOf(done) == IF done = <<>> THEN 0 ELSE done[1][1] + CyclesOf(Tail(done))

\* C3: every Console::step runs the CPU instruction, then exactly
\* 3 * cpu_cycles PPU steps, then exactly cpu_cycles APU steps: the first PPU
\* step of an instruction finds the PPU registers as the instruction left
\* them, no APU step runs before the last PPU step, and when the next
\* instruction starts every PPU step of the previous ones has run.
C3_ConsoleOrder ==
    /\ hist.ppu_steps <= 3 * hist.cycles
    /\ hist.apu_steps <= hist.cycles
    /\ hist.apu_steps > 0 => hist.ppu_steps = 3 * hist.cycles
    /\ hist.found # <<>> => hist.found = hist.left
    /\ \A k \in DOMAIN hist.done :
          hist.done[k] = <<hist.done[k][1], 3 * hist.done[k][1], hist.done[k][1],
                           3 * hist.done[k][1]>>
    /\ ticks = 3 * CyclesOf(hist.done) + hist.ppu_steps
    /\ con.pc = "cpu" /\ hist.instr > 0 =>
          hist.ppu_steps = 3 * hist.cycles /\ hist.apu_steps = hist.cycles

\* The third instruction has started after a two-cycle instruction that
\* enabled the NMI output: its six PPU steps and two APU steps are logged,
\* and its first PPU step found nmi_output set.
C3_Witness ==
    /\ hist.instr = 3
    /\ Len(hist.done) = 2
    /\ hist.done[2] = <<2, 6, 2, 6>>
    /\ hist.found # <<>> /\ hist.found[1].nmi_output
    /\ ticks > 3 * CyclesOf(hist.done)

----------------------------------------------------------------------------
(* SpecFrame: PPUMASK is written once after construction, then the PPU is  *)
(* stepped for at most MaxFrameTicks ticks.  The log keeps the byte        *)
(* written to PPUMASK (-1 before the write), the <<tick, f>> of every blit *)
(* to the video sink, whether the last step blitted, and the ticks of the  *)
(* last steps that landed on (scanline 261, cycle 0) and on                *)
(* (scanline 261, cycle 339) with f = 1.                                   *)

MaxFrameTicks == 178700

FrameMasks == {0, 8, 16}

FrameHistInit ==
    [mask |-> -1, blits |-> <<>>, blitted |-> FALSE, dot0 |-> -1, dot339 |-> -1]

\* The step landed on the given dot of the pre-render line of an odd frame.
OddPreRenderDot(M, cycle) == M.p.scanline = 261 /\ M.p.cycle = cycle /\ M.p.f = 1

FrameHistStep(h, M0, M1, now) ==
    LET blitted == M1.blits > M0.blits
    IN [h EXCEPT !.blits = IF blitted THEN Append(@, <<now, M1.p.f>>) ELSE @,
                 !.blitted = blitted,
                 !.dot0 = IF OddPreRenderDot(M1, 0) THEN now ELSE @,
                 !.dot339 = IF OddPreRenderDot(M1, 339) THEN now ELSE @]

FrameInit == InitWith(TheMapper, FrameHistInit)

FrameMask ==
    \E value \in FrameMasks :
        /\ hist.mask = -1
        /\ WriteRegisterOp(8193, value)
        /\ hist' = [hist EXCEPT !.mask = value]
        /\ UNCHANGED con

FrameStep ==
    /\ hist.mask # -1
    /\ ticks < MaxFrameTicks
    /\ StepOp
    /\ hist' = FrameHistStep(hist, Cur, step(Cur), ticks + 1)
    /\ UNCHANGED con

FrameNext == FrameMask \/ FrameStep

SpecFrame == FrameInit /\ [][FrameNext]_vars

RenderingOn == hist.mask > 0

\* <<cycle, scanline, f>> now.
Position == <<ppu.cycle, ppu.scanline, ppu.f>>

\* The ticks between the k-th blit and the next.
BlitGap(k) == hist.blits[k + 1][1] - hist.blits[k][1]

BlitPairs == 1..(Len(hist.blits) - 1)

\* C4 as stated: consecutive blits are 89,341 ticks apart on an even frame
\* and 89,340 ticks apart on an odd frame with rendering enabled.
C4_StatedGaps ==
    \A k \in BlitPairs :
        BlitGap(k) = IF RenderingOn /\ hist.blits[k][2] = 1 THEN 89340 ELSE 89341

\* C4 (amended): consecutive blits are 341 * 262 = 89,342 ticks apart, and
\* 89,341 ticks apart when the first of the two falls in an odd frame (f = 1)
\* with rendering enabled.
C4_BlitGaps ==
    \A k \in BlitPairs :
        BlitGap(k) = IF RenderingOn /\ hist.blits[k][2] = 1 THEN 89341 ELSE 89342

\* Three blits with rendering enabled: an even frame of 89,342 ticks and
\* then an odd frame of 89,341.
C4_Witness ==
    /\ RenderingOn
    /\ Len(hist.blits) = 3
    /\ hist.blits[1][2] = 0 /\ BlitGap(1) = 89342
    /\ hist.blits[2][2] = 1 /\ BlitGap(2) = 89341

\* C5: PPU::step blits and returns true exactly when its tick lands on
\* scanline 241, cycle 1, whatever the rendering flags; with rendering
\* disabled every window of 341 * 262 consecutive ticks holds exactly one
\* blit.
C5_BlitAtVblank ==
    ticks > 0 =>
        /\ ret = (ppu.scanline = 241 /\ ppu.cycle = 1)
        /\ hist.blitted = ret
        /\ (hist.mask = 0 /\ ticks >= 341 * 262) =>
              Cardinality({k \in DOMAIN hist.blits :
                              hist.blits[k][1] > ticks - 341 * 262}) = 1

\* The step of the second blit with rendering disabled.
C5_Witness ==
    /\ ticks >= 341 * 262
    /\ hist.mask = 0
    /\ ret = TRUE /\ hist.blitted
    /\ ppu.scanline = 241 /\ ppu.cycle = 1
    /\ Len(hist.blits) = 2

\* C7 as stated: with rendering enabled, 340 ticks after
\* (scanline 261, cycle 339, f = 1) the PPU is at (0, 0) with f flipped.
C7_After340 ==
    (RenderingOn /\ hist.dot339 >= 0 /\ ticks = hist.dot339 + 340) =>
        Position = <<0, 0, 0>>

\* C7 (amended): with rendering enabled, the single tick from
\* (scanline 261, cycle 339, f = 1) lands on (0, 0) with f flipped; counted
\* from the start of that pre-render line, (261, 0, f = 1), (0, 0) is reached
\* after exactly 340 ticks and not before.
C7_ShortPreRender ==
    /\ (RenderingOn /\ hist.dot339 >= 0 /\ ticks = hist.dot339 + 1) =>
          Position = <<0, 0, 0>>
    /\ (RenderingOn /\ hist.dot0 >= 0) =>
          /\ ticks < hist.dot0 + 340 => ppu.scanline = 261
          /\ ticks = hist.dot0 + 340 => Position = <<0, 0, 0>>

\* The tick after (261, 339, f = 1) with rendering enabled, 340 ticks after
\* the start of the line.
C7_Witness ==
    /\ RenderingOn
    /\ hist.dot0 >= 0
    /\ ticks = hist.dot0 + 340
    /\ ticks = hist.dot339 + 1
    /\ Position = <<0, 0, 0>>

----------------------------------------------------------------------------
(* SpecLine: the runs of SpecFrame, with a log that keeps the              *)
(* <<cycle, scanline, f>> after each of the last 341 steps and before the  *)
(* first of them, and the tick of the last step that took the short jump   *)
(* from (scanline 261, cycle 339) to cycle 0.                              *)

LineHistInit == [mask |-> -1, skip |-> -1, window |-> <<<<340, 240, 0>>>>]

LineHistStep(h, M0, M1, now) ==
    [h EXCEPT !.skip = IF M0.p.scanline = 261 /\ M0.p.cycle = 339 /\ M1.p.cycle = 0
                       THEN now ELSE @,
              !.window = Append(IF Len(@) = 342 THEN Tail(@) ELSE @,
                                <<M1.p.cycle, M1.p.scanline, M1.p.f>>)]

LineInit == InitWith(TheMapper, LineHistInit)

LineMask ==
    \E value \in FrameMasks :
        /\ hist.mask = -1
        /\ WriteRegisterOp(8193, value)
        /\ hist' = [hist EXCEPT !.mask = value]
        /\ UNCHANGED con

LineStep ==
    /\ hist.mask # -1
    /\ ticks < MaxFrameTicks
    /\ StepOp
    /\ hist' = LineHistStep(hist, Cur, step(Cur), ticks + 1)
    /\ UNCHANGED con

LineNext == LineMask \/ LineStep

SpecLine == LineInit /\ [][LineNext]_vars

\* The position n ticks ago (0 = now), for n <= 341.
Ago(n) == hist.window[Len(hist.window) - n]

Seen(n) == Len(hist.window) > n

\* C6: 341 consecutive ticks leave cycle unchanged and advance scanline by
\* one modulo 262, unless one of them is the short jump of the odd-frame
\* pre-render line.
C6_LineAdvance ==
    (Seen(341) /\ hist.skip <= ticks - 341) =>
        /\ Ago(0)[1] = Ago(341)[1]
        /\ Ago(0)[2] = (Ago(341)[2] + 1) % 262

\* 341 ticks with rendering enabled that wrap from scanline 261 to scanline
\* 0 of the next (odd) frame.
C6_Witness ==
    /\ Seen(341) /\ hist.skip <= ticks - 341
    /\ RenderingOn
    /\ Ago(341) = <<170, 261, 0>>
    /\ Ago(0) = <<170, 0, 1>>

----------------------------------------------------------------------------
(* SpecData: after construction PPUCTRL is written once (choosing the VRAM *)
(* increment), PPUADDR twice, and PPUDATA is then read at most MaxReads    *)
(* times.  The log keeps the number of setup writes done, v as the PPUADDR *)
(* pair left it, and the number of PPUDATA reads that returned.            *)

MaxReads == 16384

DataCtrlValues == {0, 4}

DataAddrHigh == {0, 63}

DataAddrLow == {0, 255}

DataHistInit == [setup |-> 0, v0 |-> -1, reads |-> 0]

DataInit == InitWith(TheMapper, DataHistInit)

DataCtrl ==
    \E value \in DataCtrlValues :
        /\ hist.setup = 0
        /\ WriteRegisterOp(8192, value)
        /\ hist' = [hist EXCEPT !.setup = 1]
        /\ UNCHANGED con

DataAddr ==
    \E value \in IF hist.setup = 1 THEN DataAddrHigh ELSE DataAddrLow :
        /\ hist.setup \in {1, 2}
        /\ WriteRegisterOp(8198, value)
        /\ hist' = [hist EXCEPT !.setup = @ + 1,
                                !.v0 = IF hist.setup = 2 THEN m_ppu'.v ELSE @]
        /\ UNCHANGED con

DataRead ==
    /\ hist.setup = 3
    /\ hist.reads < MaxReads
    /\ ReadRegisterOp(8199)
    /\ hist' = [hist EXCEPT !.reads = IF panicked' = "none" THEN @ + 1 ELSE @]
    /\ UNCHANGED con

DataNext == DataCtrl \/ DataAddr \/ DataRead

SpecData == DataInit /\ [][DataNext]_vars

\* C10: after v is set with two PPUADDR writes, 0x4000 reads of PPUDATA
\* bring v back to the value the writes left, for either VRAM increment.
C10_ReadsReturn == hist.reads = 16384 => m_ppu.v = hist.v0

\* With increment 1, the 0x4000 reads after PPUADDR <- 0x3F, 0xFF leave
\* v = 0x7FFF.
C10_Witness ==
    /\ hist.reads = 16384
    /\ m_ppu.flg_increment = 0
    /\ hist.v0 = 16383
    /\ m_ppu.v = 32767

----------------------------------------------------------------------------
(* SpecMem: after construction PPUCTRL is written once (choosing the VRAM  *)
(* increment), PPUADDR twice, and PPUDATA is then accessed at most         *)
(* MaxAccesses times: reads and writes in any order for the first MaxMixed *)
(* accesses, reads after that.  The log keeps the number of setup writes   *)
(* done, every PPUDATA write as <<v before it, value>>, and for the last   *)
(* PPUDATA access its kind, the v and the buffer_data it found and the     *)
(* byte it carried.                                                        *)

MaxAccesses == 1540

MaxMixed == 3

MemCtrlValues == {0, 4}

\* The <<high, low>> pairs written to PPUADDR: 0x2000 and 0x3FFF.
MemAddrPairs == {<<32, 0>>, <<63, 255>>}

MemWriteValues == {165, 90}

MemHistInit == [setup |-> 0, high |-> 0, n |-> 0, writes |-> <<>>, last |-> <<>>]

MemInit == InitWith(TheMapper, MemHistInit)

MemCtrl ==
    \E value \in MemCtrlValues :
        /\ hist.setup = 0
        /\ WriteRegisterOp(8192, value)
        /\ hist' = [hist EXCEPT !.setup = 1]
        /\ UNCHANGED con

MemAddr ==
    \E pair \in MemAddrPairs :
        /\ hist.setup \in {1, 2}
        /\ hist.setup = 2 => pair[1] = hist.high
        /\ WriteRegisterOp(8198, pair[hist.setup])
        /\ hist' = [hist EXCEPT !.setup = @ + 1, !.high = pair[1]]
        /\ UNCHANGED con

MemWrite ==
    \E value \in MemWriteValues :
        /\ hist.setup = 3
        /\ hist.n < MaxMixed
        /\ WriteRegisterOp(8199, value)
        /\ hist' = [hist EXCEPT !.n = @ + 1,
                                !.writes = Append(@, <<m_ppu.v, value>>),
                                !.last = <<"write", m_ppu.v, m_ppu.buffer_data, value>>]
        /\ UNCHANGED con

MemRead ==
    /\ hist.setup = 3
    /\ hist.n < MaxAccesses
    /\ ReadRegisterOp(8199)
    /\ hist' = [hist EXCEPT !.n = @ + 1,
                            !.last = <<"read", m_ppu.v, m_ppu.buffer_data, ret'>>]
    /\ UNCHANGED con

MemNext == MemCtrl \/ MemAddr \/ MemWrite \/ MemRead

SpecMem == MemInit /\ [][MemNext]_vars

VramIncrement == IF m_ppu.flg_increment = 0 THEN 1 ELSE 32

\* The byte PPU memory holds at an address now.
MemByte(address) == read(m_ppu, mapper, address).value

\* C11: every PPUDATA access completes, reads or writes PPU memory at the v
\* it found and leaves v advanced by 1 (increment flag 0) or 32 (flag 1);
\* with PPUCTRL = 0x04 and v = 0x2000, two successive writes land at
\* nametable offsets 0 and 32.
C11_DataAccess ==
    /\ hist.last # <<>> =>
          /\ panicked = "none"
          /\ m_ppu.v = hist.last[2] + VramIncrement
          /\ (hist.last[1] = "write" /\ MemRegion(hist.last[2]) # "mapper") =>
                MemByte(hist.last[2]) = hist.last[4]
          /\ (hist.last[1] = "read" /\ MemRegion(hist.last[2]) # "palettes") =>
                /\ hist.last[4] = hist.last[3]
                /\ m_ppu.buffer_data = MemByte(hist.last[2])
          /\ (hist.last[1] = "read" /\ MemRegion(hist.last[2]) = "palettes") =>
                hist.last[4] = MemByte(hist.last[2])
    /\ (Len(hist.writes) >= 2 /\ hist.n = 2 /\ m_ppu.flg_increment = 1
            /\ hist.writes[1][1] = 8192) =>
          /\ Peek(m_ppu.nametables, 0) = hist.writes[1][2]
          /\ Peek(m_ppu.nametables, 32) = hist.writes[2][2]

\* C11 (as far as it holds): the same, for the accesses that find
\* v + increment within 16 bits.
C11_BelowOverflow ==
    (hist.last # <<>> /\ hist.last[2] + VramIncrement <= 65535) => C11_DataAccess

\* With PPUCTRL = 0x04 and PPUADDR <- 0x3F, 0xFF the 1537th access finds
\* v = 0xFFFF: the addition of 32 overflows the u16.
C11_Witness ==
    /\ hist.last # <<>>
    /\ hist.last[2] = 65535
    /\ m_ppu.flg_increment = 1
    /\ hist.n = 1537

----------------------------------------------------------------------------
(* SpecPalette: at most MaxPalOps palette writes and PPUADDR writes after  *)
(* construction.  A palette byte is written by write_palette itself or by  *)
(* a PPUDATA write after PPUADDR was pointed into 0x3F00-0x3FFF.  The log  *)
(* keeps the number of operations and the last palette write as            *)
(* <<palette address, value>>.                                             *)

MaxPalOps == 5

\* The backdrop entries, their mirrors, and one entry that has no mirror.
PalAddresses == {0, 4, 8, 12, 16, 20, 24, 28, 17}

\* Low bytes written to PPUADDR after the high byte 0x3F: 0x3F10, 0x3F14,
\* 0x3F1C, and 0x3F38, which folds to 0x18.
PalAddrLow == {16, 20, 28, 56}

PalValues == {1, 2}

PalHistInit == [n |-> 0, last |-> <<>>]

PalInit == InitWith(TheMapper, PalHistInit)

\* PPUState::write_palette called with a palette address.
PalDirect ==
    \E address \in PalAddresses : \E value \in PalValues :
        /\ hist.n < MaxPalOps
        /\ panicked = "none"
        /\ m_ppu' = write_palette(m_ppu, address, value)
        /\ hist' = [n |-> hist.n + 1, last |-> <<address, value>>]
        /\ UNCHANGED <<ppu, mapper, cpu_nmi, video, v_buffer, ret, panicked, ticks, con>>

PalAddr ==
    \E value \in IF m_ppu.w = 0 THEN {63} ELSE PalAddrLow :
        /\ hist.n < MaxPalOps
        /\ WriteRegisterOp(8198, value)
        /\ hist' = [hist EXCEPT !.n = @ + 1]
        /\ UNCHANGED con

PalData ==
    \E value \in PalValues :
        /\ hist.n < MaxPalOps
        /\ MemRegion(m_ppu.v) = "palettes"
        /\ WriteRegisterOp(8199, value)
        /\ hist' = [n |-> hist.n + 1, last |-> <<m_ppu.v % 32, value>>]
        /\ UNCHANGED con

PalNext == PalDirect \/ PalAddr \/ PalData

SpecPalette == PalInit /\ [][PalNext]_vars

\* C12: after any sequence of palette writes, the entries 0x10, 0x14, 0x18
\* and 0x1C read the same as 0x00, 0x04, 0x08 and 0x0C, and the last byte
\* written to either of a pair is what both read.
C12_PaletteMirrors ==
    /\ \A a \in {0, 4, 8, 12} :
          read_palette(m_ppu, a + 16) = read_palette(m_ppu, a)
    /\ hist.last # <<>> =>
          /\ read_palette(m_ppu, hist.last[1]) = hist.last[2]
          /\ hist.last[1] % 4 = 0 =>
                read_palette(m_ppu, (hist.last[1] + 16) % 32) = hist.last[2]

\* A PPUDATA write of 2 at 0x3F38 (palette address 0x18) after 1 went to
\* 0x04: both members of each pair read the byte.
C12_Witness ==
    /\ hist.last = <<24, 2>>
    /\ m_ppu.v = 16185
    /\ read_palette(m_ppu, 8) = 2 /\ read_palette(m_ppu, 24) = 2
    /\ read_palette(m_ppu, 4) = 1 /\ read_palette(m_ppu, 20) = 1

----------------------------------------------------------------------------
(* SpecReset: after construction PPUCTRL, PPUMASK and OAMADDR are written  *)
(* once each, the PPU is stepped for at most MaxResetTicks ticks, with     *)
(* PPU::clear_vbuffers called at any point between the steps, and the run  *)
(* ends with Console::reset, or PPU::reset called twice in a row, or both. *)
(* The log keeps whether Console::reset was called, the number of          *)
(* setup writes and of resets done, <<nmi_output, flg_showbg, oam_address, *)
(* cycle, scanline>> as the first reset found them, the frame buffer and   *)
(* the blit count as the last reset found them, and the PPU registers and  *)
(* renderer state as the first reset left them.                            *)

MaxResetTicks == 7170

ResetSetup == <<8192, 8193, 8195>>

ResetSetupValues(address) ==
    CASE address = 8192 -> {0, 159}
      [] address = 8193 -> {0, 255}
      [] OTHER -> {0, 85}

ResetHistInit ==
    [setup |-> 0, resets |-> 0, console |-> FALSE, found |-> <<>>, buffer |-> <<>>,
     left |-> <<>>]

ResetInit == InitWith(TheMapper, ResetHistInit)

ResetWrite ==
    /\ hist.setup < Len(ResetSetup)
    /\ \E value \in ResetSetupValues(ResetSetup[hist.setup + 1]) :
          /\ WriteRegisterOp(ResetSetup[hist.setup + 1], value)
          /\ hist' = [hist EXCEPT !.setup = @ + 1]
          /\ UNCHANGED con

ResetStep ==
    /\ hist.setup = Len(ResetSetup)
    /\ hist.resets = 0
    /\ ~hist.console
    /\ ticks < MaxResetTicks
    /\ StepOp
    /\ UNCHANGED <<hist, con>>

\* A call of PPU::clear_vbuffers.
ClearVbuffers ==
    /\ hist.setup = Len(ResetSetup)
    /\ hist.resets = 0
    /\ ~hist.console
    /\ panicked = "none"
    /\ Install(clear_vbuffers(Cur))
    /\ UNCHANGED <<ret, panicked, ticks, hist, con>>

\* A call of Console::reset.
ConsoleReset ==
    /\ hist.setup = Len(ResetSetup)
    /\ hist.resets = 0
    /\ ~hist.console
    /\ panicked = "none"
    /\ \E outcome \in MemoryBusOutcomes : Install(console_reset(Cur, outcome))
    /\ hist' = [hist EXCEPT !.console = TRUE]
    /\ UNCHANGED <<ret, panicked, ticks, con>>

\* A call of PPU::reset.
Reset ==
    /\ hist.setup = Len(ResetSetup)
    /\ hist.resets < 2
    /\ panicked = "none"
    /\ Install(reset(Cur))
    /\ hist' = [hist EXCEPT
                  !.resets = @ + 1,
                  !.found = IF hist.resets = 0
                            THEN <<m_ppu.nmi_output, m_ppu.flg_showbg, m_ppu.oam_address,
                                   ppu.cycle, ppu.scanline>>
                            ELSE @,
                  !.buffer = <<v_buffer, video>>,
                  !.left = IF hist.resets = 0 THEN <<m_ppu', ppu'>> ELSE @]
    /\ UNCHANGED <<ret, panicked, ticks, con>>

ResetNext == ResetWrite \/ ResetStep \/ ClearVbuffers \/ ConsoleReset \/ Reset

SpecReset == ResetInit /\ [][ResetNext]_vars

\* Every flag write_control and write_mask derive from their byte is zero.
FlagsClear(s) ==
    /\ s.flg_nametable = 0 /\ s.flg_increment = 0 /\ s.flg_spritetable = 0
    /\ s.flg_backgroundtable = 0 /\ s.flg_spritesize = 0 /\ s.flg_masterslave = 0
    /\ ~s.nmi_output
    /\ s.flg_grayscale = 0 /\ s.flg_showleftbg = 0 /\ s.flg_showleftsprites = 0
    /\ s.flg_showbg = 0 /\ s.flg_showsprites = 0
    /\ s.flg_redtint = 0 /\ s.flg_greentint = 0 /\ s.flg_bluetint = 0

\* C13: after PPU::reset cycle = 340, scanline = 240, the PPUCTRL and
\* PPUMASK flags and OAMADDR are zero and the frame buffer is as the reset
\* found it; a second reset leaves the registers and the renderer state
\* exactly as the first left them.
C13_ResetIdempotent ==
    hist.resets >= 1 =>
        /\ ppu.cycle = 340 /\ ppu.scanline = 240
        /\ FlagsClear(m_ppu)
        /\ m_ppu.oam_address = 0
        /\ <<v_buffer, video>> = hist.buffer
        /\ hist.resets = 2 => <<m_ppu, ppu>> = hist.left

\* Two resets of a PPU that had NMI output and background rendering on,
\* OAMADDR = 0x55, had drawn a pixel and stood on scanline 0.
C13_Witness ==
    /\ hist.resets = 2
    /\ hist.found[1] /\ hist.found[2] = 1 /\ hist.found[3] = 85
    /\ hist.found[5] = 0
    /\ v_buffer # <<>>
    /\ ppu.cycle = 340

----------------------------------------------------------------------------
(* SpecHit: after construction PPUMASK is written, then byte 0 (y) and     *)
(* byte 3 (x) of OAM entry 0 through OAMADDR and OAMDATA, and the PPU is   *)
(* stepped for at most MaxHitTicks ticks, over a cartridge whose pattern   *)
(* tables hold only opaque pixels.  The log keeps the number of setup      *)
(* writes done and, for the last step, whether it raised flg_sprite0hit    *)
(* and, if it rendered a pixel, <<x, background pixel, sprite pixel (both  *)
(* after left-edge masking), OAM index held by the winning slot>>.         *)

MaxHitTicks == 7850

HitMapper == [mode |-> "horizontal", chr |-> <<255>>]

HitSetup == <<8193, 8195, 8196, 8195, 8196>>

\* PPUMASK 0x1E or 0x18 (left edge masked); OAM[0] = 0 or 240; OAM[3] = 0 or 255.
HitSetupValues(k) ==
    CASE k = 1 -> {30, 24}
      [] k = 2 -> {0}
      [] k = 3 -> {0, 240}
      [] k = 4 -> {3}
      [] OTHER -> {0, 255}

HitHistInit == [setup |-> 0, raised |-> FALSE, pixel |-> <<>>]

\* What render_pixel has in hand on the machine the tick left.
HitPixel(M) ==
    LET x == M.p.cycle - 1
        sp0 == sprite_pixel(M)
    IN <<x,
         IF x < 8 /\ M.s.flg_showleftbg = 0 THEN 0 ELSE background_pixel(M),
         IF x < 8 /\ M.s.flg_showleftsprites = 0 THEN 0 ELSE sp0[2],
         M.p.sprite_indices[sp0[1]]>>

HitHistStep(h, M0, M1) ==
    LET Mt == tick(M0)
    IN [h EXCEPT !.raised = M0.s.flg_sprite0hit = 0 /\ M1.s.flg_sprite0hit = 1,
                 !.pixel = IF Rendering(Mt) /\ VisibleLine(Mt) /\ VisibleCycle(Mt)
                           THEN HitPixel(Mt) ELSE <<>>]

HitInit == InitWith(HitMapper, HitHistInit)

HitWrite ==
    /\ hist.setup < Len(HitSetup)
    /\ \E value \in HitSetupValues(hist.setup + 1) :
          /\ WriteRegisterOp(HitSetup[hist.setup + 1], value)
          /\ hist' = [hist EXCEPT !.setup = @ + 1]
          /\ UNCHANGED con

HitStep ==
    /\ hist.setup = Len(HitSetup)
    /\ ticks < MaxHitTicks
    /\ StepOp
    /\ hist' = HitHistStep(hist, Cur, step(Cur))
    /\ UNCHANGED con

HitNext == HitWrite \/ HitStep

SpecHit == HitInit /\ [][HitNext]_vars

\* C14: a step raises the sprite-0-hit flag only while rendering a pixel
\* with x < 255 whose background and sprite pixels are both opaque after
\* left-edge masking and whose winning sprite slot holds OAM index 0.
C14_SpriteZeroHit ==
    hist.raised =>
        /\ hist.pixel # <<>>
        /\ hist.pixel[1] # 255
        /\ hist.pixel[2] % 4 # 0
        /\ hist.pixel[3] % 4 # 0
        /\ hist.pixel[4] = 0

\* The flag raised at x = 0 of scanline 1, where OAM entry 0 (y = 0, x = 0)
\* is opaque over an opaque background and the left edge is shown.
C14_Witness ==
    /\ hist.raised
    /\ hist.pixel = <<0, 3, 3, 0>>
    /\ ppu.scanline = 1
    /\ m_ppu.flg_showleftbg = 1 /\ m_ppu.flg_showleftsprites = 1
    /\ m_ppu.flg_sprite0hit = 1

----------------------------------------------------------------------------
(* SpecSprites: after construction PPUCTRL is written (choosing the sprite *)
(* height), OAMADDR is set to 0, OAM is filled with 256 OAMDATA writes     *)
(* that put the entries of a chosen set at y = 2 and every other entry at  *)
(* y = 240, PPUMASK is written to enable rendering, and the PPU is stepped *)
(* for at most MaxSpriteTicks ticks.  The log keeps the chosen set, the    *)
(* number of setup writes done, whether the last step evaluated sprites,   *)
(* and flg_spriteoverflow as that step found it.                           *)

MaxSpriteTicks == 13700

\* The sets of OAM entries put on screen: 3, 8 and 9 entries.
SpritePlans ==
    { {2, 5, 9},
      {1, 3, 5, 7, 9, 11, 13, 15},
      {1, 3, 5, 7, 9, 11, 13, 15, 17} }

\* The k-th byte written to OAMDATA (k = 0..255).
SpriteByte(plan, k) ==
    IF k % 4 # 0 THEN 0
    ELSE IF (k \div 4) \in plan THEN 2 ELSE 240

\* The k-th setup write (k = 0..258) as <<address, values>>.
SpriteSetup(plan, k) ==
    CASE k = 0 -> <<8192, {0, 32}>>
      [] k = 1 -> <<8195, {0}>>
      [] k = 258 -> <<8193, {24}>>
      [] OTHER -> <<8196, {SpriteByte(plan, k - 2)}>>

SpriteHistInit(plan) ==
    [plan |-> plan, setup |-> 0, evaluated |-> FALSE, overflow_before |-> 0]

SpriteHistStep(h, M0, M1) ==
    LET Mt == tick(M0)
    IN [h EXCEPT !.evaluated = Rendering(Mt) /\ Mt.p.cycle = 257 /\ VisibleLine(Mt),
                 !.overflow_before = M0.s.flg_spriteoverflow]

SpriteInit == \E plan \in SpritePlans : InitWith(TheMapper, SpriteHistInit(plan))

SpriteWrite ==
    /\ hist.setup <= 258
    /\ \E value \in SpriteSetup(hist.plan, hist.setup)[2] :
          /\ WriteRegisterOp(SpriteSetup(hist.plan, hist.setup)[1], value)
          /\ hist' = [hist EXCEPT !.setup = @ + 1]
          /\ UNCHANGED con

SpriteStep ==
    /\ hist.setup > 258
    /\ ticks < MaxSpriteTicks
    /\ StepOp
    /\ hist' = SpriteHistStep(hist, Cur, step(Cur))
    /\ UNCHANGED con

SpriteNext == SpriteWrite \/ SpriteStep

SpecSprites == SpriteInit /\ [][SpriteNext]_vars

SpriteHeight == IF m_ppu.flg_spritesize = 0 THEN 8 ELSE 16

\* The OAM entries in range on the current scanline.
OnLine ==
    { i \in 0..63 : /\ ppu.scanline - Peek(m_ppu.oam, i * 4) >= 0
                    /\ ppu.scanline - Peek(m_ppu.oam, i * 4) < SpriteHeight }

\* Slot c holds the entry of OnLine with exactly c smaller entries.
SlotInOrder(c) ==
    /\ ppu.sprite_indices[c] \in OnLine
    /\ Cardinality({j \in OnLine : j < ppu.sprite_indices[c]}) = c

\* C15: a sprite evaluation sets the overflow flag exactly when more than 8
\* OAM entries are in range; then sprite_count = 8 and the slots hold the 8
\* lowest in-range entries in OAM order; otherwise the flag is left as it
\* was and sprite_count is the number in range.
C15_SpriteOverflow ==
    hist.evaluated =>
        /\ Cardinality(OnLine) > 8 =>
              /\ m_ppu.flg_spriteoverflow = 1
              /\ ppu.sprite_count = 8
        /\ Cardinality(OnLine) <= 8 =>
              /\ m_ppu.flg_spriteoverflow = hist.overflow_before
              /\ ppu.sprite_count = Cardinality(OnLine)
        /\ \A c \in 0..(ppu.sprite_count - 1) : SlotInOrder(c)

\* The evaluation of scanline 2 with entries 1, 3, ..., 17 in range: the
\* flag goes from 0 to 1 and slot 7 holds entry 15.
C15_Witness ==
    /\ hist.evaluated
    /\ Cardinality(OnLine) = 9
    /\ hist.overflow_before = 0
    /\ m_ppu.flg_spriteoverflow = 1
    /\ ppu.sprite_count = 8
    /\ ppu.sprite_indices[7] = 15

----------------------------------------------------------------------------
(* SpecScroll: increment_x and increment_y applied once to a PPUState      *)
(* whose v is any u16; everything else is as constructed.  The log keeps   *)
(* the function applied and the v it found.                                *)

\* The largest value of a u16.
U16Max == 65535

ScrollHistInit == [op |-> "none", before |-> 0]

ScrollInit ==
    \E v0 \in 0..U16Max :
        /\ m_ppu = [Constructed(TheMapper).s EXCEPT !.v = v0]
        /\ ppu = Constructed(TheMapper).p
        /\ mapper = TheMapper
        /\ cpu_nmi = 0
        /\ video = 0
        /\ v_buffer = <<>>
        /\ ret = 0
        /\ panicked = "none"
        /\ ticks = 0
        /\ hist = ScrollHistInit
        /\ con = <<>>

\* PPUState::increment_x
IncrementX ==
    /\ hist.op = "none"
    /\ m_ppu' = increment_x(m_ppu)
    /\ hist' = [op |-> "increment_x", before |-> m_ppu.v]
    /\ UNCHANGED <<ppu, mapper, cpu_nmi, video, v_buffer, ret, panicked, ticks, con>>

\* PPUState::increment_y
IncrementY ==
    /\ hist.op = "none"
    /\ m_ppu' = increment_y(m_ppu)
    /\ hist' = [op |-> "increment_y", before |-> m_ppu.v]
    /\ UNCHANGED <<ppu, mapper, cpu_nmi, video, v_buffer, ret, panicked, ticks, con>>

ScrollNext == IncrementX \/ IncrementY

SpecScroll == ScrollInit /\ [][ScrollNext]_vars

\* The fields of a VRAM address: bits 0-4, 5-9, 10, 11 and 12-14.
CoarseX(v) == v % 32

CoarseY(v) == (v \div 32) % 32

Bit10(v) == (v \div 1024) % 2

Bit11(v) == (v \div 2048) % 2

FineY(v) == (v \div 4096) % 8

\* C16: increment_x at coarse-X 31 sets coarse-X to 0 and toggles bit 10;
\* below 31 it adds 1 to coarse-X; no other bit of v changes.
C16_IncrementX ==
    hist.op = "increment_x" =>
        m_ppu.v = IF CoarseX(hist.before) = 31
                  THEN hist.before - 31
                       + (IF Bit10(hist.before) = 0 THEN 1024 ELSE -1024)
                  ELSE hist.before + 1

\* increment_x at v = 0xFFFF: coarse-X wraps and bit 10 goes from 1 to 0.
C16_Witness ==
    /\ hist.op = "increment_x"
    /\ hist.before = 65535
    /\ m_ppu.v = 64480

\* C17: increment_y below fine-Y 7 adds 1 to fine-Y; at fine-Y 7 it zeroes
\* fine-Y and, at coarse-Y 29, zeroes coarse-Y and toggles bit 11, at
\* coarse-Y 31 zeroes coarse-Y, otherwise adds 1 to coarse-Y; no other bit
\* of v changes.
C17_IncrementY ==
    hist.op = "increment_y" =>
        /\ m_ppu.v =
              IF FineY(hist.before) < 7 THEN hist.before + 4096
              ELSE IF CoarseY(hist.before) = 29
                   THEN hist.before - 7 * 4096 - 29 * 32
                        + (IF Bit11(hist.before) = 0 THEN 2048 ELSE -2048)
              ELSE IF CoarseY(hist.before) = 31
                   THEN hist.before - 7 * 4096 - 31 * 32
              ELSE hist.before - 7 * 4096 + 32
        /\ CoarseX(m_ppu.v) = CoarseX(hist.before)
        /\ Bit10(m_ppu.v) = Bit10(hist.before)

\* increment_y at fine-Y 7, coarse-Y 31 with bit 11 set: both fields are
\* zeroed and bit 11 stays set.
C17_Witness ==
    /\ hist.op = "increment_y"
    /\ FineY(hist.before) = 7 /\ CoarseY(hist.before) = 31
    /\ Bit11(hist.before) = 1
    /\ FineY(m_ppu.v) = 0 /\ CoarseY(m_ppu.v) = 0 /\ Bit11(m_ppu.v) = 1

----------------------------------------------------------------------------
(* SpecMicros: one call of Console::step_micros or Console::step_frame on  *)
(* a console as constructed.  An action is the call up to the first test   *)
(* of the loop, or one iteration of the loop: a whole Console::step and    *)
(* the test that follows it.  The CPU and the APU are outside src/: an     *)
(* instruction takes 1..MaxCpuCycles cycles and, during the first         *)
(* MaxMicroAccessCycles cycles of the call, may access one PPU register,   *)
(* as in SpecConsole; an APU step leaves the PPU alone.  The loop is       *)
(* followed for MaxMicroCycles cycles.                                     *)
(* The log keeps the function called, its argument, the sum of the cycles  *)
(* returned by the steps so far and the cycles of the last one.            *)

MaxMicroCycles == 30000

MaxMicroAccessCycles == 12

MicrosInputs == {0, 1, 2, 56, 23994230, 23994231, 24000000}

\* `micros * 179` on a u32, as 16-bit halves (the product may exceed what
\* the checker's integers hold): the release build wraps, the debug build
\* panics with an arithmetic overflow.
MulU32(a, k, build) ==
    LET lo == (a % 65536) * k
        hi == (a \div 65536) * k + lo \div 65536
    IN IF hi < 65536 THEN [hi |-> hi, lo |-> lo % 65536, panic |-> "none"]
       ELSE IF build = "release"
            THEN [hi |-> hi % 65536, lo |-> lo % 65536, panic |-> "none"]
       ELSE [hi |-> hi, lo |-> lo % 65536, panic |-> "overflow"]

\* `(...) / 100` on a u32 held as 16-bit halves.
DivU32(x, d) ==
    [hi |-> x.hi \div d, lo |-> (((x.hi % d) * 65536 + x.lo) \div d) % 65536]

\* `(...) as i32`: the same 32 bits read as a signed number.
AsI32(x) ==
    IF x.hi >= 32768 THEN (x.hi - 65536) * 65536 + x.lo ELSE x.hi * 65536 + x.lo

RECURSIVE StepTimes(_, _)
\* for _ in 0..n { self.ppu.step(m) }
StepTimes(M, n) ==
    IF n = 0 \/ M.panic # "none" THEN M ELSE StepTimes(step(M), n - 1)

\* The effects an instruction has on the PPU: none, a write of PPUCTRL
\* that enables the NMI output, or a read of PPUSTATUS.
CpuKinds == {"none", "write", "read"}

\* self.cpu.step(), as far as the PPU goes.
CpuStep(M, kind, build) ==
    CASE kind = "write" ->
           LET r == write_register(M.s, M.mp, 8192, 128, build)
           IN [M EXCEPT !.s = r.s, !.mp = r.mp, !.panic = r.panic]
      [] kind = "read" ->
           LET r == read_register(M.s, M.mp, 8194, build)
           IN [M EXCEPT !.s = r.s, !.panic = r.panic]
      [] OTHER -> M

\* Console::step with an instruction of cpucycles cycles and the given
\* effect on the PPU.
ConsoleStep(cpucycles, kind) ==
    /\ panicked = "none"
    /\ \E C \in {CpuStep(Cur, kind, build) : build \in Builds} :
         LET M == StepTimes(C, PpuLoopBound(cpucycles))
         IN /\ Install(M)
            /\ ret' = M.frame
            /\ panicked' = M.panic
    /\ ticks' = ticks + PpuLoopBound(cpucycles)

MicrosConInit == [pc |-> "idle", cpu_cycles |-> 0]

MicrosHistInit == [op |-> "none", micros |-> 0, sum |-> 0, last |-> 0]

MicrosInit == InitConsole(TheMapper, MicrosHistInit, MicrosConInit)

\* let mut cpu_cycles = ((micros * 179) / 100) as i32; and the first test
\* of the loop.
MicrosEnter(op, micros) ==
    /\ con.pc = "idle"
    /\ panicked = "none"
    /\ \E build \in Builds :
         LET prod == MulU32(micros, 179, build)
             cpu_cycles == AsI32(DivU32(prod, 100))
         IN /\ panicked' = prod.panic
            /\ con' = IF prod.panic # "none" THEN con
                      ELSE [pc |-> IF cpu_cycles > 0 THEN "loop" ELSE "done",
                            cpu_cycles |-> cpu_cycles]
    /\ hist' = [op |-> op, micros |-> micros, sum |-> 0, last |-> 0]
    /\ UNCHANGED <<m_ppu, ppu, mapper, cpu_nmi, video, v_buffer, ret, ticks>>

\* Console::step_micros
StepMicros == \E micros \in MicrosInputs : MicrosEnter("step_micros", micros)

\* Console::step_frame
StepFrame == MicrosEnter("step_frame", 1000000 \div 60)

\* cpu_cycles = cpu_cycles - self.step(); and the test that follows.
MicrosLoop ==
    \E cpucycles \in 1..MaxCpuCycles : \E kind \in CpuKinds :
        /\ con.pc = "loop"
        /\ hist.sum < MaxMicroCycles
        /\ kind # "none" => hist.sum < MaxMicroAccessCycles
        /\ ConsoleStep(cpucycles, kind)
        /\ con' = [pc |-> IF con.cpu_cycles - cpucycles > 0 THEN "loop" ELSE "done",
                   cpu_cycles |-> con.cpu_cycles - cpucycles]
        /\ hist' = [hist EXCEPT !.sum = @ + cpucycles, !.last = cpucycles]

MicrosNext == StepMicros \/ StepFrame \/ MicrosLoop

SpecMicros == MicrosInit /\ [][MicrosNext]_vars

\* floor(micros * 179 / 100), computed without the product.
Floor179(micros) == (micros \div 100) * 179 + ((micros % 100) * 179) \div 100

\* C18: a call of step_micros(micros) does not fail; while it loops the sum
\* of the cycles returned is below floor(micros * 179 / 100) and what is
\* left to run is the difference, which every step lowers by at least 1;
\* when it has returned the sum has reached the target, and had not before
\* the last step; with a target of 0 no step runs; step_frame is
\* step_micros(16_666).
C18_StepMicros ==
    /\ panicked = "none"
    /\ hist.op # "none" =>
          /\ con.cpu_cycles = Floor179(hist.micros) - hist.sum
          /\ hist.sum > 0 => hist.last >= 1
          /\ con.pc = "loop" => hist.sum < Floor179(hist.micros)
          /\ con.pc = "done" =>
                /\ hist.sum >= Floor179(hist.micros)
                /\ hist.sum > 0 => hist.sum - hist.last < Floor179(hist.micros)
          /\ Floor179(hist.micros) = 0 => hist.sum = 0 /\ con.pc = "done"
    /\ hist.op = "step_frame" => hist.micros = 16666

\* What does hold: the same for every argument whose product with 179 fits
\* a u32, that is up to 23,994,230 microseconds.
C18_BelowOverflow == hist.micros <= 23994230 => C18_StepMicros

\* step_micros(24_000_000) in a release build has returned after 10,327
\* cycles, where floor(micros * 179 / 100) is 42,960,000.
C18_Witness ==
    /\ hist.op = "step_micros"
    /\ hist.micros = 24000000
    /\ con.pc = "done"
    /\ hist.sum = 10327
    /\ ticks = 3 * 10327
    /\ panicked = "none"

----------------------------------------------------------------------------
(* SpecOam: OAMADDR is written once after construction, then OAMDATA is    *)
(* written at most MaxOamWrites times, with reads of OAMDATA in between.   *)
(* The n-th byte written is fixed by a seed chosen with the address.  The  *)
(* log keeps the address and the seed (-1 before the write of OAMADDR),    *)
(* the number of OAMDATA writes, the last access of OAMDATA with its byte, *)
(* and the PPUState that access found.                                     *)

MaxOamWrites == 258

OamStarts == {0, 1, 200, 255}

OamSeeds == {1, 77}

OamByte(seed, n) == (seed + 3 * n) % 256

OamHistInit ==
    [start |-> -1, seed |-> -1, n |-> 0, op |-> "none", value |-> 0, prev |-> <<>>]

OamInit == InitWith(TheMapper, OamHistInit)

\* write_register(0x2003, start)
OamAddr ==
    \E start \in OamStarts : \E seed \in OamSeeds :
        /\ hist.start < 0
        /\ WriteRegisterOp(8195, start)
        /\ hist' = [hist EXCEPT !.start = start, !.seed = seed]
        /\ UNCHANGED con

\* write_register(0x2004, value)
OamWrite ==
    /\ hist.start >= 0
    /\ hist.n < MaxOamWrites
    /\ WriteRegisterOp(8196, OamByte(hist.seed, hist.n))
    /\ hist' = [hist EXCEPT !.n = @ + 1, !.op = "write",
                            !.value = OamByte(hist.seed, hist.n), !.prev = <<m_ppu>>]
    /\ UNCHANGED con

\* read_register(0x2004)
OamRead ==
    /\ hist.start >= 0
    /\ ReadRegisterOp(8196)
    /\ hist' = [hist EXCEPT !.op = "read", !.value = 0, !.prev = <<m_ppu>>]
    /\ UNCHANGED con

OamNext == OamAddr \/ OamWrite \/ OamRead

SpecOam == OamInit /\ [][OamNext]_vars

\* C19: a write of OAMDATA stores its byte at oam[oam_address], leaves the
\* other 255 bytes alone and moves oam_address to the next index, 255 going
\* to 0, so that after 256 writes oam_address is where it started; a read
\* of OAMDATA returns oam[oam_address] and leaves oam_address and OAM as
\* they were.
C19_OamData ==
    /\ hist.op = "write" =>
          /\ Peek(m_ppu.oam, hist.prev[1].oam_address) = hist.value
          /\ \A a \in 0..255 :
                a # hist.prev[1].oam_address =>
                    Peek(m_ppu.oam, a) = Peek(hist.prev[1].oam, a)
          /\ m_ppu.oam_address =
                IF hist.prev[1].oam_address = 255 THEN 0
                ELSE hist.prev[1].oam_address + 1
    /\ hist.n = 256 => m_ppu.oam_address = hist.start
    /\ hist.op = "read" =>
          /\ ret = Peek(hist.prev[1].oam, hist.prev[1].oam_address)
          /\ m_ppu.oam_address = hist.prev[1].oam_address
          /\ m_ppu.oam = hist.prev[1].oam

\* 256 writes from address 200 have brought oam_address back to 200, past
\* the wrap at 255, and a read there returns the first byte written.
C19_Witness ==
    /\ hist.start = 200
    /\ hist.n = 256
    /\ hist.op = "read"
    /\ m_ppu.oam_address = 200
    /\ ret = OamByte(hist.seed, 0)
    /\ Peek(m_ppu.oam, 255) = OamByte(hist.seed, 55)
    /\ Peek(m_ppu.oam, 0) = OamByte(hist.seed, 56)

----------------------------------------------------------------------------
(* SpecBus: after construction the CPU stores two bytes in the nametables  *)
(* and two in the palette through PPUADDR and PPUDATA and enables the      *)
(* background; then either PPUState::read or PPUState::write is called     *)
(* once with any u16 address, or the PPU is stepped for at most MaxBusTicks *)
(* ticks, into the fetches of the pre-render line.  The log keeps the      *)
(* number of set-up writes done, the call made with its address and byte,  *)
(* and the PPUState the call found.                                        *)

MaxBusTicks == 7200

\* <<register, byte>>: 0x3F05 := 0x33, 0x3F10 := 0x44, 0x2005 := 0x11,
\* 0x2006 := 0x12, PPUMASK := 0x08.
BusSetup ==
    << <<8198, 63>>, <<8198, 5>>, <<8199, 51>>,
       <<8198, 63>>, <<8198, 16>>, <<8199, 68>>,
       <<8198, 32>>, <<8198, 5>>, <<8199, 17>>, <<8199, 18>>,
       <<8193, 8>> >>

BusValues == {90}

BusHistInit == [setup |-> 0, op |-> "none", address |-> 0, value |-> 0, prev |-> <<>>]

BusInit == InitWith(TheMapper, BusHistInit)

\* write_register(register, byte), the next of BusSetup
BusRegister ==
    /\ hist.setup < Len(BusSetup)
    /\ WriteRegisterOp(BusSetup[hist.setup + 1][1], BusSetup[hist.setup + 1][2])
    /\ hist' = [hist EXCEPT !.setup = @ + 1]
    /\ UNCHANGED con

\* PPUState::read(mapper, address)
BusRead ==
    /\ hist.setup = Len(BusSetup)
    /\ hist.op = "none"
    /\ panicked = "none"
    /\ \E address \in 0..U16Max :
          /\ LET r == read(m_ppu, mapper, address)
             IN /\ ret' = r.value
                /\ panicked' = r.panic
          /\ hist' = [hist EXCEPT !.op = "read", !.address = address,
                                  !.prev = <<m_ppu>>]
    /\ UNCHANGED <<m_ppu, ppu, mapper, cpu_nmi, video, v_buffer, ticks, con>>

\* PPUState::write(mapper, address, value)
BusWrite ==
    /\ hist.setup = Len(BusSetup)
    /\ hist.op = "none"
    /\ panicked = "none"
    /\ \E address \in 0..U16Max : \E value \in BusValues :
          /\ LET r == write(m_ppu, mapper, address, value)
             IN /\ m_ppu' = r.s
                /\ mapper' = r.mp
                /\ panicked' = r.panic
          /\ hist' = [hist EXCEPT !.op = "write", !.address = address,
                                  !.value = value, !.prev = <<m_ppu>>]
    /\ UNCHANGED <<ppu, cpu_nmi, video, v_buffer, ret, ticks, con>>

\* PPU::step
BusStep ==
    /\ hist.setup = Len(BusSetup)
    /\ hist.op \in {"none", "step"}
    /\ ticks < MaxBusTicks
    /\ StepOp
    /\ hist' = [hist EXCEPT !.op = "step"]
    /\ UNCHANGED con

BusNext == BusRegister \/ BusRead \/ BusWrite \/ BusStep

SpecBus == BusInit /\ [][BusNext]_vars

\* The address folded modulo 0x4000.
Fold(address) == address % 16384

\* Two byte arrays agree everywhere but at index a.
SameBut(new, old, a) ==
    \A i \in (DOMAIN new \cup DOMAIN old) \ {a} : Peek(new, i) = Peek(old, i)

\* C20: a read or write of PPU memory at any u16 address, folded modulo
\* 0x4000, goes to the mapper alone below 0x2000, to the nametable byte the
\* mirroring mode selects alone from 0x2000 to 0x3EFF, and to the palette
\* entry at fold mod 32 alone from 0x3F00; the unmapped-access failure is
\* never raised, by these calls, by register accesses or by PPU steps.
C20_Dispatch ==
    /\ panicked = "none"
    /\ hist.op = "read" =>
          /\ m_ppu = hist.prev[1]
          /\ ret = IF Fold(hist.address) < 8192
                   THEN mapper_read(mapper, Fold(hist.address))
                   ELSE IF Fold(hist.address) < 16128
                   THEN Peek(m_ppu.nametables,
                             mirror_address(mapper.mode, Fold(hist.address)) % 2048)
                   ELSE Peek(m_ppu.palettes, PaletteWrap(Fold(hist.address) % 32))
    /\ hist.op = "write" =>
          /\ [m_ppu EXCEPT !.nametables = hist.prev[1].nametables,
                           !.palettes = hist.prev[1].palettes] = hist.prev[1]
          /\ IF Fold(hist.address) < 8192
             THEN /\ m_ppu = hist.prev[1]
                  /\ mapper = mapper_write(TheMapper, Fold(hist.address), hist.value)
             ELSE IF Fold(hist.address) < 16128
             THEN /\ m_ppu.palettes = hist.prev[1].palettes
                  /\ Peek(m_ppu.nametables,
                          mirror_address(mapper.mode, Fold(hist.address)) % 2048)
                        = hist.value
                  /\ SameBut(m_ppu.nametables, hist.prev[1].nametables,
                             mirror_address(mapper.mode, Fold(hist.address)) % 2048)
             ELSE /\ m_ppu.nametables = hist.prev[1].nametables
                  /\ Peek(m_ppu.palettes, PaletteWrap(Fold(hist.address) % 32))
                        = hist.value
                  /\ SameBut(m_ppu.palettes, hist.prev[1].palettes,
                             PaletteWrap(Fold(hist.address) % 32))

\* A read at 0xFF05, which folds to 0x3F05, returns the palette byte 0x33
\* stored there through PPUDATA.
C20_Witness ==
    /\ hist.op = "read"
    /\ hist.address = 65285
    /\ ret = 51
    /\ panicked = "none"

----------------------------------------------------------------------------
(* SpecNmi: PPU steps from construction for MaxNmiTicks ticks, past the    *)
(* vblank onset at tick 2, the pre-render line at tick 6822 and the next   *)
(* onset.  The CPU reads PPUSTATUS and OAMDATA, writes PPUCTRL with bit 7  *)
(* set or clear, and calls PPU::reset or Console::reset (once in a run),   *)
(* during the first NmiEarly ticks and from tick NmiLate to tick           *)
(* NmiLateEnd; a run in which it did is followed up to tick NmiLateEnd,    *)
(* and a reset for NmiAfterReset ticks.                                    *)
(* The log keeps the last operation, the <<nmi_delay, nmi_output,          *)
(* nmi_occurred>> it found, whether it called set_nmi, whether the CPU has *)
(* accessed the PPU, the tick of the reset (-1 without one), and whether   *)
(* the countdown in progress was cancelled: a PPUSTATUS read or a PPUCTRL  *)
(* write with bit 7 clear came while nmi_delay > 0, and the NMI edge has   *)
(* not risen again since.                                                  *)

MaxNmiTicks == 89400

NmiEarly == 20

NmiLate == 6818

NmiLateEnd == 6830

NmiAfterReset == 25

NmiCtrlValues == {0, 128}

NmiHistInit ==
    [op |-> "none", before |-> <<0, FALSE, FALSE>>, called |-> FALSE,
     accessed |-> FALSE, reset_at |-> -1, cancelled |-> FALSE]

\* The log after an operation that found s and nmi and left s1 and nmi1.
NmiHistOp(h, op, cancels, s, nmi, s1, nmi1, now) ==
    [op |-> op,
     before |-> <<s.nmi_delay, s.nmi_output, s.nmi_occurred>>,
     called |-> nmi1 > nmi,
     accessed |-> h.accessed \/ op # "step",
     reset_at |-> IF op \in {"reset", "console_reset"} THEN now ELSE h.reset_at,
     cancelled |-> IF s1.nmi_previous /\ ~s.nmi_previous THEN FALSE
                   ELSE IF cancels /\ s.nmi_delay > 0 THEN TRUE
                   ELSE IF op = "step" /\ s.nmi_delay = 0 THEN FALSE
                   ELSE h.cancelled]

\* The ticks at which the CPU accesses the PPU.
NmiWindow ==
    /\ ticks <= NmiEarly \/ (ticks >= NmiLate /\ ticks <= NmiLateEnd)
    /\ hist.reset_at < 0 \/ ticks < hist.reset_at + NmiAfterReset

NmiInit == InitWith(TheMapper, NmiHistInit)

\* read_register(0x2002) or read_register(0x2004)
NmiRead ==
    /\ NmiWindow
    /\ \E address \in ReadAddresses :
          /\ ReadRegisterOp(address)
          /\ hist' = NmiHistOp(hist, "read", address = 8194, m_ppu, cpu_nmi,
                               m_ppu', cpu_nmi', ticks)
    /\ UNCHANGED con

\* write_register(0x2000, value)
NmiWrite ==
    /\ NmiWindow
    /\ \E value \in NmiCtrlValues :
          /\ WriteRegisterOp(8192, value)
          /\ hist' = NmiHistOp(hist, "write", value < 128, m_ppu, cpu_nmi,
                               m_ppu', cpu_nmi', ticks)
    /\ UNCHANGED con

\* PPU::reset
NmiReset ==
    /\ NmiWindow
    /\ hist.reset_at < 0
    /\ panicked = "none"
    /\ Install(reset(Cur))
    /\ hist' = NmiHistOp(hist, "reset", TRUE, m_ppu, cpu_nmi, m_ppu', cpu_nmi', ticks)
    /\ UNCHANGED <<ret, panicked, ticks, con>>

\* Console::reset
NmiConsoleReset ==
    /\ NmiWindow
    /\ hist.reset_at < 0
    /\ panicked = "none"
    /\ \E outcome \in MemoryBusOutcomes : Install(console_reset(Cur, outcome))
    /\ hist' = NmiHistOp(hist, "console_reset", TRUE, m_ppu, cpu_nmi, m_ppu', cpu_nmi',
                         ticks)
    /\ UNCHANGED <<ret, panicked, ticks, con>>

\* PPU::step
NmiStep ==
    /\ ticks < MaxNmiTicks
    /\ hist.accessed => ticks < NmiLateEnd
    /\ hist.reset_at >= 0 => ticks < hist.reset_at + NmiAfterReset
    /\ StepOp
    /\ hist' = NmiHistOp(hist, "step", FALSE, m_ppu, cpu_nmi, m_ppu', cpu_nmi', ticks)
    /\ UNCHANGED con

NmiNext == NmiRead \/ NmiWrite \/ NmiReset \/ NmiConsoleReset \/ NmiStep

SpecNmi == NmiInit /\ [][NmiNext]_vars

\* The steps and the register accesses of SpecNmi, without the resets.
VblankNext == NmiRead \/ NmiWrite \/ NmiStep

SpecVblank == NmiInit /\ [][VblankNext]_vars

\* C21: set_nmi is called only by a step whose tick took nmi_delay from 1
\* to 0 while nmi_output and nmi_occurred both held; a countdown during
\* which PPUSTATUS was read or PPUCTRL written with bit 7 clear, the NMI
\* edge not having risen again since, ends without a call.
C21_NmiOnlyAtZero ==
    /\ hist.called =>
          /\ hist.op = "step"
          /\ hist.before = <<1, TRUE, TRUE>>
          /\ m_ppu.nmi_delay = 0
    /\ (hist.op = "step" /\ hist.before[1] = 1 /\ hist.cancelled) => ~hist.called

\* A countdown armed at the vblank onset has just ended without a call of
\* set_nmi: PPUSTATUS was read while it ran, and PPUCTRL bit 7 is still set.
C21_Witness ==
    /\ hist.op = "step"
    /\ hist.before = <<1, TRUE, FALSE>>
    /\ hist.cancelled
    /\ ~hist.called
    /\ cpu_nmi = 0
    /\ m_ppu.nmi_output
    /\ m_ppu.nmi_delay = 0
    /\ ticks <= NmiEarly

\* C24: after every register read, register write, reset and step,
\* nmi_previous is nmi_output /\ nmi_occurred and nmi_delay is in 0..15.
C24_NmiEdgeTracked ==
    /\ m_ppu.nmi_previous = (m_ppu.nmi_output /\ m_ppu.nmi_occurred)
    /\ m_ppu.nmi_delay >= 0
    /\ m_ppu.nmi_delay <= 15

\* A reset has found the NMI line high in the middle of a countdown: it
\* leaves nmi_occurred set, nmi_output and nmi_previous clear and the
\* countdown running.
C24_Witness ==
    /\ hist.op = "reset"
    /\ hist.before[2] /\ hist.before[3]
    /\ hist.before[1] > 0 /\ hist.before[1] < 15
    /\ m_ppu.nmi_occurred /\ ~m_ppu.nmi_output /\ ~m_ppu.nmi_previous
    /\ m_ppu.nmi_delay = hist.before[1]

\* The dot is inside the vblank window: from (241, 1) to (261, 0).
InVblank ==
    \/ ppu.scanline = 241 /\ ppu.cycle >= 1
    \/ ppu.scanline > 241 /\ ppu.scanline < 261
    \/ ppu.scanline = 261 /\ ppu.cycle = 0

\* C25: in every state reached from construction by steps and register
\* accesses, nmi_occurred holds only from dot (241, 1)
\* to dot (261, 0), it rises only in the step that lands on (241, 1), and
\* it is clear after the step that lands on (261, 1).
C25_VblankWindow ==
    /\ m_ppu.nmi_occurred => InVblank
    /\ (m_ppu.nmi_occurred /\ ~hist.before[3]) =>
          hist.op = "step" /\ ppu.scanline = 241 /\ ppu.cycle = 1
    /\ (hist.op = "step" /\ ppu.scanline = 261 /\ ppu.cycle = 1) => ~m_ppu.nmi_occurred

\* The second vblank onset, a whole frame after the first, which was
\* cleared at the pre-render line: the step landing on (241, 1) has raised
\* the flag.
C25_Witness ==
    /\ hist.reset_at < 0
    /\ ticks = 2 + 341 * 262
    /\ hist.op = "step"
    /\ ~hist.before[3]
    /\ m_ppu.nmi_occurred
    /\ ppu.scanline = 241 /\ ppu.cycle = 1

----------------------------------------------------------------------------
(* SpecSticky: after construction OAMADDR is set to 0, OAM is filled with  *)
(* 256 OAMDATA writes that put entries 0..8 at y = 2, x = 0 and the others *)
(* at y = 240, PPUMASK is written with 0x1E, and the PPU is stepped for at *)
(* most MaxStickyTicks ticks over all-opaque pattern tables: the overflow  *)
(* flag rises on scanline 2, the sprite-0 hit on scanline 3, and the step  *)
(* landing on (261, 1) comes at tick 96,164.  The CPU makes at most        *)
(* MaxStickyAccesses register accesses, from tick StickyEarly to tick      *)
(* StickyEarlyEnd or from tick StickyLate to tick StickyLateEnd; a run in  *)
(* which it did is followed to the end of that window.  The log keeps the  *)
(* number of setup writes done, the number of accesses, the last           *)
(* operation with its register, and the <<flg_sprite0hit,                  *)
(* flg_spriteoverflow>> it found.                                          *)

MaxStickyTicks == 96200

MaxStickyAccesses == 2

StickyEarly == 8186

StickyEarlyEnd == 8190

StickyLate == 96161

StickyLateEnd == 96166

StickyPlan == 0..8

\* The k-th setup write (k = 0..257) as <<address, value>>.
StickySetup(k) ==
    CASE k = 0 -> <<8195, 0>>
      [] k = 257 -> <<8193, 30>>
      [] OTHER -> <<8196, SpriteByte(StickyPlan, k - 1)>>

StickyReads == {8194, 8196, 8199}

StickyWrites == 8192..8199

StickyValues == {0, 255}

StickyHistInit ==
    [setup |-> 0, n |-> 0, op |-> "none", address |-> 0, before |-> <<0, 0>>]

StickyHistOp(h, op, address) ==
    [h EXCEPT !.n = IF op = "step" THEN @ ELSE @ + 1,
              !.op = op,
              !.address = address,
              !.before = <<m_ppu.flg_sprite0hit, m_ppu.flg_spriteoverflow>>]

\* The ticks at which the CPU accesses the PPU.
StickyWindow ==
    /\ hist.setup > 257
    /\ hist.n < MaxStickyAccesses
    /\ \/ ticks >= StickyEarly /\ ticks <= StickyEarlyEnd
       \/ ticks >= StickyLate /\ ticks <= StickyLateEnd

StickyInit == InitWith(HitMapper, StickyHistInit)

\* write_register(address, value), the next of StickySetup
StickySetupWrite ==
    /\ hist.setup <= 257
    /\ WriteRegisterOp(StickySetup(hist.setup)[1], StickySetup(hist.setup)[2])
    /\ hist' = [hist EXCEPT !.setup = @ + 1]
    /\ UNCHANGED con

\* read_register(address)
StickyRead ==
    /\ StickyWindow
    /\ \E address \in StickyReads :
          /\ ReadRegisterOp(address)
          /\ hist' = StickyHistOp(hist, "read", address)
    /\ UNCHANGED con

\* write_register(address, value)
StickyWrite ==
    /\ StickyWindow
    /\ \E address \in StickyWrites : \E value \in StickyValues :
          /\ WriteRegisterOp(address, value)
          /\ hist' = StickyHistOp(hist, "write", address)
    /\ UNCHANGED con

\* PPU::step
StickyStep ==
    /\ hist.setup > 257
    /\ ticks < MaxStickyTicks
    /\ hist.n > 0 => ticks < (IF ticks <= StickyEarlyEnd THEN StickyEarlyEnd
                              ELSE StickyLateEnd)
    /\ StepOp
    /\ hist' = StickyHistOp(hist, "step", 0)
    /\ UNCHANGED con

StickyNext == StickySetupWrite \/ StickyRead \/ StickyWrite \/ StickyStep

SpecSticky == StickyInit /\ [][StickyNext]_vars

\* <<flg_sprite0hit, flg_spriteoverflow>> now.
SpriteFlags == <<m_ppu.flg_sprite0hit, m_ppu.flg_spriteoverflow>>

\* A flag the operation found set is still set.
FlagsKept == \A k \in 1..2 : hist.before[k] = 1 => SpriteFlags[k] = 1

\* C26: a sprite-0-hit or sprite-overflow flag that is set stays set over
\* every register read and write, a PPUSTATUS read returning them in bits 6
\* and 5, and over every step but the one that lands on (261, 1), which
\* clears both.
C26_StickyFlags ==
    /\ hist.op \in {"read", "write"} => FlagsKept
    /\ (hist.op = "read" /\ hist.address = 8194) =>
          /\ (ret \div 64) % 2 = hist.before[1]
          /\ (ret \div 32) % 2 = hist.before[2]
    /\ hist.op = "step" =>
          IF ppu.scanline = 261 /\ ppu.cycle = 1 THEN SpriteFlags = <<0, 0>>
          ELSE FlagsKept

\* The step landing on (261, 1) has cleared both flags, which the register
\* accesses made just before it had left set.
C26_Witness ==
    /\ hist.op = "step"
    /\ ppu.scanline = 261 /\ ppu.cycle = 1
    /\ hist.n > 0
    /\ hist.before = <<1, 1>>
    /\ SpriteFlags = <<0, 0>>

\* C22: the dot stays within cycle 0..340 and scanline 0..261, every pixel
\* in the frame buffer was written at x in 0..255 and y in 0..239, and the
\* pixel a step renders is written at x = cycle - 1, y = scanline.
C22_DotInRange ==
    /\ ppu.cycle >= 0 /\ ppu.cycle <= 340
    /\ ppu.scanline >= 0 /\ ppu.scanline <= 261
    /\ DOMAIN v_buffer # {} =>
          /\ v_buffer.x >= 0 /\ v_buffer.x <= 255
          /\ v_buffer.y >= 0 /\ v_buffer.y <= 239
    /\ ( /\ hist.op = "step"
         /\ m_ppu.flg_showbg # 0 \/ m_ppu.flg_showsprites # 0
         /\ ppu.scanline < 240
         /\ ppu.cycle >= 1 /\ ppu.cycle <= 256 ) =>
          /\ DOMAIN v_buffer # {}
          /\ v_buffer.x = ppu.cycle - 1
          /\ v_buffer.y = ppu.scanline

\* The last pixel of the frame has been written, at (255, 239).
C22_Witness ==
    /\ hist.op = "step"
    /\ ppu.cycle = 256 /\ ppu.scanline = 239
    /\ DOMAIN v_buffer # {}
    /\ v_buffer.x = 255 /\ v_buffer.y = 239

\* Where one tick takes the dot <<cycle, scanline, f>> with the given
\* rendering flag, as C23 states it.
AfterTick(pos, rendering) ==
    IF rendering /\ pos = <<339, 261, 1>> THEN <<0, 0, 0>>
    ELSE IF pos[1] < 340 THEN <<pos[1] + 1, pos[2], pos[3]>>
    ELSE IF pos[2] < 261 THEN <<0, pos[2] + 1, pos[3]>>
    ELSE <<0, 0, 1 - pos[3]>>

\* C23 (checked under SpecFrame): a step moves the dot from (261, 339) with
\* f = 1 and rendering enabled to (0, 0) with f = 0; any other step adds 1
\* to cycle, 340 wrapping to 0 with scanline + 1, and scanline 261 wrapping
\* to 0 with f flipped; f and the dot change in no other way.
C23_TickAdvance ==
    [][ IF ticks' = ticks + 1
        THEN <<ppu'.cycle, ppu'.scanline, ppu'.f>> =
                AfterTick(<<ppu.cycle, ppu.scanline, ppu.f>>,
                          m_ppu.flg_showbg # 0 \/ m_ppu.flg_showsprites # 0)
        ELSE <<ppu'.cycle, ppu'.scanline, ppu'.f>> = <<ppu.cycle, ppu.scanline, ppu.f>>
      ]_vars

\* The step after the one that landed on (261, 339) of an odd frame with
\* rendering enabled: the dot is (0, 0) and f is 0.
C23_Witness ==
    /\ RenderingOn
    /\ hist.dot339 >= 0
    /\ ticks = hist.dot339 + 1
    /\ Position = <<0, 0, 0>>

====
